---- MODULE Spec2Model ----
(***************************************************************************)
(* Model of data_pipeline_register.py, the Streamlit form that collects a  *)
(* pipeline configuration in st.session_state and dumps it as YAML.        *)
(*                                                                         *)
(* Python values are tagged records [t |-> tag, v |-> payload]:            *)
(*   str, bool, int, none  scalars                                         *)
(*   list                  v is the sequence of the items                  *)
(*   dict                  v is the sequence of <<key, value>> pairs in    *)
(*                         insertion order (Python dicts keep it)          *)
(* One pass of main() is two steps: render_sidebar (pc = "sidebar"), then  *)
(* the selected section (pc = "section").                                  *)
(***************************************************************************)
EXTENDS Integers, Sequences, FiniteSets, TLC

VARIABLES
  session_state,   \* st.session_state: column_mappings, source_config,
                   \* validator_config, table_config
  uploaded_file,   \* content of the sidebar's YAML uploader (NoFile if empty)
  pc,              \* position in main(): "sidebar" or "section"
  old,             \* session_state at the start of the last step
  ui,              \* what the last step read from its widgets
  out,             \* what the last step showed and wrote (messages, YAML
                   \* text, the file saved)
  used             \* how many loads and edits the user has made so far

vars == <<session_state, uploaded_file, pc, old, ui, out, used>>

----------------------------------------------------------------------------
(* Python values *)

S(s) == [t |-> "str", v |-> s]
B(b) == [t |-> "bool", v |-> b]
I(n) == [t |-> "int", v |-> n]
L(items) == [t |-> "list", v |-> items]
D(pairs) == [t |-> "dict", v |-> pairs]
None == [t |-> "none", v |-> "None"]

\* bool(x)
Truthy(x) ==
  CASE x.t = "str" -> x.v # ""
    [] x.t = "bool" -> x.v
    [] x.t = "int" -> x.v # 0
    [] x.t = "none" -> FALSE
    [] OTHER -> Len(x.v) > 0

\* a == b for the scalars the code compares
PyEq(a, b) == a.t = b.t /\ a.v = b.v

\* k in d
Has(d, k) == \E i \in 1..Len(d.v) : d.v[i][1] = k
KeyIndex(d, k) == CHOOSE i \in 1..Len(d.v) : d.v[i][1] = k
\* d[k]
Item(d, k) == d.v[KeyIndex(d, k)][2]
\* d.get(k, default)
Get(d, k, default) == IF Has(d, k) THEN Item(d, k) ELSE default
\* d[k] = x : an existing key keeps its position, a new key goes last
Set(d, k, x) ==
  IF Has(d, k)
    THEN D([d.v EXCEPT ![KeyIndex(d, k)] = <<k, x>>])
    ELSE D(Append(d.v, <<k, x>>))
\* a deletion that only empties the value: d[k] = [] where the code has del d[k]
DelClears(d, k) == D([i \in 1..Len(d.v) |->
                       IF d.v[i][1] = k THEN <<k, L(<<>>)>> ELSE d.v[i]])
\* del d[k]
Del(d, k) == D(SelectSeq(d.v, LAMBDA e : e[1] # k))
\* list(d.keys())
Keys(d) == [i \in 1..Len(d.v) |-> d.v[i][1]]

----------------------------------------------------------------------------
(* Constants and literal documents of the source *)

SUPPORTED_DATA_TYPES ==
  << "string", "int", "bigint", "smallint", "decimal(18, 4)",
     "timestamp", "date", "boolean", "float", "double" >>

\* data_pipeline_register.py lines 49-50
InitColumnMappings ==
  L(<<>>)

\* data_pipeline_register.py lines 52-53
InitSourceConfig ==
  D(<<>>)

\* data_pipeline_register.py lines 55-59
InitValidatorConfig ==
  D(<<
    <<"tier1", D(<< <<"control_file_flag", S("y")>>, <<"data_quality_rules", L(<<>>)>> >>)>>,
    <<"tier2", D(<< <<"data_quality_rules", L(<<>>)>> >>)>> >>)

\* data_pipeline_register.py lines 61-76
InitTableConfig ==
  D(<<
    <<"metadata", D(<<
      <<"tier1", D(<< <<"technical_columns", L(<<>>)>>, <<"partition_columns", L(<<>>)>> >>)>>,
      <<"tier2", D(<<
        <<"technical_columns", L(<<>>)>>,
        <<"partition_columns", L(<<>>)>>,
        <<"primary_keys", L(<<>>)>>,
        <<"historical_load_columns", L(<<>>)>> >>)>> >>)>>,
    <<"columns", L(<<>>)>> >>)

\* data_pipeline_register.py lines 145-168
SalesTransactionSourceConfig ==
  D(<<
    <<"source_system", S("pos")>>,
    <<"catalog", S("${catalog}")>>,
    <<"delay_day", S("1")>>,
    <<"active_flag", S("y")>>,
    <<"landing_bucket", S("${tier0_bucket}")>>,
    <<"persisted_bucket", S("${tier1_bucket}")>>,
    <<"data_timezone", S("UTC")>>,
    <<"control_file_landing_location", S("/ctl/pos/df_sohdr/${data_date}/")>>,
    <<"data_file_landing_location", S("/data/pos/df_sohdr/${data_date}/")>>,
    <<"control_file_regex", S("df_sohdr*.ctl")>>,
    <<"data_file_regex", S("df_sohdr*.csv")>>,
    <<"control_file_format", D(<< <<"header", B(FALSE)>>, <<"delimiter", S("|")>> >>)>>,
    <<"data_file_format", D(<<
      <<"header", B(TRUE)>>,
      <<"delimiter", S("|")>>,
      <<"quote", S("\"")>>,
      <<"escape", S("\"")>>,
      <<"charset", S("utf-8")>> >>)>> >>)

\* data_pipeline_register.py lines 170-184
SalesTransactionValidatorConfig ==
  D(<<
    <<"tier1", D(<<
      <<"control_file_flag", S("y")>>,
      <<"data_quality_rules", L(<<
        D(<<
          <<"rule", S("check_duplicate")>>,
          <<"column", L(<< S("branch_no"), S("shopping_card"), S("order_no") >>)>> >>),
        D(<<
          <<"rule", S("check_null")>>,
          <<"column", L(<< S("branch_no"), S("shopping_card"), S("order_no") >>)>> >>) >>)>> >>)>>,
    <<"tier2", D(<<
      <<"data_quality_rules", L(<<
        D(<<
          <<"rule", S("check_duplicate")>>,
          <<"column", L(<< S("branch_code"), S("shopping_card_id"), S("order_id") >>)>> >>),
        D(<<
          <<"rule", S("check_null")>>,
          <<"column", L(<< S("branch_code"), S("shopping_card_id"), S("order_id") >>)>> >>) >>)>> >>)>> >>)

\* data_pipeline_register.py lines 186-249
SalesTransactionTableConfig ==
  D(<<
    <<"metadata", D(<<
      <<"tier1", D(<<
        <<"load_type", S("full_dump")>>,
        <<"schema", S("t1_pos")>>,
        <<"table", S("df_sohdr")>>,
        <<"partition_columns", L(<< S("source"), S("dp_data_dt") >>)>>,
        <<"technical_columns", L(<<
          D(<< <<"name", S("source")>>, <<"data_type", S("string")>> >>),
          D(<< <<"name", S("dp_load_ts")>>, <<"data_type", S("timestamp")>> >>),
          D(<< <<"name", S("dp_data_dt")>>, <<"data_type", S("date")>> >>) >>)>> >>)>>,
      <<"tier2", D(<<
        <<"load_type", S("scd1")>>,
        <<"schema", S("t2_pos")>>,
        <<"table", S("txn_sales_order_header")>>,
        <<"primary_keys", L(<< S("branch_code"), S("shopping_card_id"), S("order_id") >>)>>,
        <<"partition_columns", L(<< S("source") >>)>>,
        <<"technical_columns", L(<<
          D(<< <<"name", S("source")>>, <<"data_type", S("string")>> >>),
          D(<< <<"name", S("dp_load_ts")>>, <<"data_type", S("timestamp")>> >>),
          D(<< <<"name", S("dp_data_dt")>>, <<"data_type", S("date")>> >>) >>)>> >>)>> >>)>>,
    <<"columns", L(<<
      D(<<
        <<"tier_1", S("branch_no")>>,
        <<"tier_2", S("branch_code")>>,
        <<"data_type", S("string")>> >>),
      D(<<
        <<"tier_1", S("shopping_card")>>,
        <<"tier_2", S("shopping_card_id")>>,
        <<"data_type", S("string")>> >>),
      D(<<
        <<"tier_1", S("order_no")>>,
        <<"tier_2", S("order_id")>>,
        <<"data_type", S("string")>> >>),
      D(<<
        <<"tier_1", S("order_date")>>,
        <<"tier_2", S("order_timestamp")>>,
        <<"data_type", S("timestamp")>> >>),
      D(<<
        <<"tier_1", S("tour_code")>>,
        <<"tier_2", S("tour_code")>>,
        <<"data_type", S("string")>> >>),
      D(<<
        <<"tier_1", S("cust_type_code")>>,
        <<"tier_2", S("customer_type_code")>>,
        <<"data_type", S("string")>> >>),
      D(<<
        <<"tier_1", S("airline_code")>>,
        <<"tier_2", S("airline_code")>>,
        <<"data_type", S("string")>> >>),
      D(<<
        <<"tier_1", S("flight_code")>>,
        <<"tier_2", S("flight_code")>>,
        <<"data_type", S("string")>> >>),
      D(<<
        <<"tier_1", S("flight_date")>>,
        <<"tier_2", S("flight_date")>>,
        <<"data_type", S("date")>> >>),
      D(<<
        <<"tier_1", S("flight_time")>>,
        <<"tier_2", S("flight_time")>>,
        <<"data_type", S("string")>> >>),
      D(<<
        <<"tier_1", S("country_code")>>,
        <<"tier_2", S("country_code")>>,
        <<"data_type", S("string")>> >>),
      D(<<
        <<"tier_1", S("order_status")>>,
        <<"tier_2", S("order_status_type")>>,
        <<"data_type", S("string")>> >>),
      D(<< <<"tier_1", S("posid")>>, <<"tier_2", S("pos_id")>>, <<"data_type", S("string")>> >>),
      D(<<
        <<"tier_1", S("cashier_mac")>>,
        <<"tier_2", S("cashier_machine_id")>>,
        <<"data_type", S("string")>> >>),
      D(<<
        <<"tier_1", S("cashier_code")>>,
        <<"tier_2", S("cashier_code")>>,
        <<"data_type", S("string")>> >>),
      D(<<
        <<"tier_1", S("update_date_sale")>>,
        <<"tier_2", S("sale_update_timestamp")>>,
        <<"data_type", S("timestamp")>> >>),
      D(<<
        <<"tier_1", S("add_datetime")>>,
        <<"tier_2", S("add_timestamp")>>,
        <<"data_type", S("timestamp")>> >>),
      D(<<
        <<"tier_1", S("update_datetime")>>,
        <<"tier_2", S("update_timestamp")>>,
        <<"data_type", S("timestamp")>> >>),
      D(<<
        <<"tier_1", S("user_add")>>,
        <<"tier_2", S("user_add_id")>>,
        <<"data_type", S("string")>> >>),
      D(<<
        <<"tier_1", S("user_update")>>,
        <<"tier_2", S("user_update_id")>>,
        <<"data_type", S("string")>> >>),
      D(<<
        <<"tier_1", S("time_stamp")>>,
        <<"tier_2", S("timestamp_code")>>,
        <<"data_type", S("string")>> >>),
      D(<<
        <<"tier_1", S("lock_address")>>,
        <<"tier_2", S("lock_address_code")>>,
        <<"data_type", S("string")>> >>),
      D(<<
        <<"tier_1", S("cancel_to_order")>>,
        <<"tier_2", S("cancel_to_order_id")>>,
        <<"data_type", S("int")>> >>),
      D(<<
        <<"tier_1", S("hotel_code")>>,
        <<"tier_2", S("hotel_code")>>,
        <<"data_type", S("string")>> >>),
      D(<<
        <<"tier_1", S("hotel_source")>>,
        <<"tier_2", S("hotel_source_code")>>,
        <<"data_type", S("string")>> >>),
      D(<<
        <<"tier_1", S("shop_ref")>>,
        <<"tier_2", S("reference_shopping_card_id")>>,
        <<"data_type", S("string")>> >>),
      D(<<
        <<"tier_1", S("machine_tax")>>,
        <<"tier_2", S("machine_tax_id")>>,
        <<"data_type", S("string")>> >>),
      D(<<
        <<"tier_1", S("ref_doc")>>,
        <<"tier_2", S("reference_document_id")>>,
        <<"data_type", S("string")>> >>),
      D(<<
        <<"tier_1", S("cardtypecode")>>,
        <<"tier_2", S("card_type_code")>>,
        <<"data_type", S("string")>> >>),
      D(<<
        <<"tier_1", S("embossid")>>,
        <<"tier_2", S("emboss_id")>>,
        <<"data_type", S("string")>> >>),
      D(<<
        <<"tier_1", S("cardtypeid")>>,
        <<"tier_2", S("card_type_id")>>,
        <<"data_type", S("string")>> >>),
      D(<<
        <<"tier_1", S("lvheaderkey")>>,
        <<"tier_2", S("lvheader_key")>>,
        <<"data_type", S("decimal(13, 2)")>> >>),
      D(<<
        <<"tier_1", S("alipaysession")>>,
        <<"tier_2", S("alipay_session_number")>>,
        <<"data_type", S("string")>> >>),
      D(<<
        <<"tier_1", S("paid_guid")>>,
        <<"tier_2", S("paid_guid")>>,
        <<"data_type", S("string")>> >>),
      D(<< <<"tier_1", S("site")>>, <<"tier_2", S("site_name")>>, <<"data_type", S("string")>> >>) >>)>> >>)

\* data_pipeline_register.py lines 254-277
PosBranchSourceConfig ==
  D(<<
    <<"source_system", S("pos")>>,
    <<"catalog", S("${catalog}")>>,
    <<"delay_day", S("1")>>,
    <<"active_flag", S("y")>>,
    <<"landing_bucket", S("${tier0_bucket}")>>,
    <<"persisted_bucket", S("${tier1_bucket}")>>,
    <<"data_timezone", S("UTC")>>,
    <<"control_file_landing_location", S("/ctl/pos/df_branch/${data_date}/")>>,
    <<"data_file_landing_location", S("/data/pos/df_branch/${data_date}/")>>,
    <<"control_file_regex", S("df_branch*.ctl")>>,
    <<"data_file_regex", S("df_branch*.csv")>>,
    <<"control_file_format", D(<< <<"header", B(FALSE)>>, <<"delimiter", S("|")>> >>)>>,
    <<"data_file_format", D(<<
      <<"header", B(TRUE)>>,
      <<"delimiter", S("|")>>,
      <<"quote", S("\"")>>,
      <<"escape", S("\"")>>,
      <<"charset", S("utf-8")>> >>)>> >>)

\* data_pipeline_register.py lines 279-293
PosBranchValidatorConfigFirst ==
  D(<<
    <<"tier1", D(<<
      <<"control_file_flag", S("y")>>,
      <<"data_quality_rules", L(<<
        D(<<
          <<"rule", S("check_duplicate")>>,
          <<"column", L(<< S("branch_no"), S("plant"), S("site") >>)>> >>),
        D(<<
          <<"rule", S("check_null")>>,
          <<"column", L(<< S("branch_no"), S("plant"), S("site") >>)>> >>) >>)>> >>)>>,
    <<"tier2", D(<<
      <<"data_quality_rules", L(<<
        D(<<
          <<"rule", S("check_duplicate")>>,
          <<"column", L(<< S("branch_code"), S("plant_code"), S("site_name") >>)>> >>),
        D(<<
          <<"rule", S("check_null")>>,
          <<"column", L(<< S("branch_code"), S("plant_code"), S("site_name") >>)>> >>) >>)>> >>)>> >>)

\* data_pipeline_register.py lines 295-333
PosBranchTableConfigFirst ==
  D(<<
    <<"metadata", D(<<
      <<"tier1", D(<<
        <<"load_type", S("full_dump")>>,
        <<"schema", S("t1_pos")>>,
        <<"table", S("df_branch")>>,
        <<"partition_columns", L(<< S("source"), S("dp_data_dt") >>)>>,
        <<"technical_columns", L(<<
          D(<< <<"name", S("source")>>, <<"data_type", S("string")>> >>),
          D(<< <<"name", S("dp_load_ts")>>, <<"data_type", S("timestamp")>> >>),
          D(<< <<"name", S("dp_data_dt")>>, <<"data_type", S("date")>> >>) >>)>> >>)>>,
      <<"tier2", D(<<
        <<"load_type", S("scd2")>>,
        <<"schema", S("t2_pos")>>,
        <<"table", S("mst_branch")>>,
        <<"primary_keys", L(<< S("branch_code"), S("plant_code"), S("site_name") >>)>>,
        <<"partition_columns", L(<< S("is_current"), S("source") >>)>>,
        <<"technical_columns", L(<<
          D(<< <<"name", S("source")>>, <<"data_type", S("string")>> >>),
          D(<< <<"name", S("dp_load_ts")>>, <<"data_type", S("timestamp")>> >>),
          D(<< <<"name", S("dp_data_dt")>>, <<"data_type", S("date")>> >>) >>)>>,
        <<"historical_load_columns", L(<<
          D(<< <<"name", S("is_current")>>, <<"data_type", S("string")>> >>),
          D(<< <<"name", S("effective_start_date")>>, <<"data_type", S("date")>> >>),
          D(<< <<"name", S("effective_end_date")>>, <<"data_type", S("date")>> >>) >>)>> >>)>> >>)>>,
    <<"columns", L(<<
      D(<<
        <<"tier_1", S("branch_no")>>,
        <<"tier_2", S("branch_code")>>,
        <<"data_type", S("string")>> >>),
      D(<<
        <<"tier_1", S("name")>>,
        <<"tier_2", S("branch_name")>>,
        <<"data_type", S("string")>> >>),
      D(<<
        <<"tier_1", S("plant")>>,
        <<"tier_2", S("plant_code")>>,
        <<"data_type", S("string")>> >>),
      D(<< <<"tier_1", S("site")>>, <<"tier_2", S("site_name")>>, <<"data_type", S("string")>> >>),
      D(<<
        <<"tier_1", S("address1")>>,
        <<"tier_2", S("address_1_name")>>,
        <<"data_type", S("string")>> >>) >>)>> >>)

\* data_pipeline_register.py lines 335-349
PosBranchValidatorConfigSecond ==
  D(<<
    <<"tier1", D(<<
      <<"control_file_flag", S("y")>>,
      <<"data_quality_rules", L(<<
        D(<<
          <<"rule", S("check_duplicate")>>,
          <<"column", L(<< S("branch_no"), S("shopping_card"), S("order_no") >>)>> >>),
        D(<<
          <<"rule", S("check_null")>>,
          <<"column", L(<< S("branch_no"), S("shopping_card"), S("order_no") >>)>> >>) >>)>> >>)>>,
    <<"tier2", D(<<
      <<"data_quality_rules", L(<<
        D(<<
          <<"rule", S("check_duplicate")>>,
          <<"column", L(<< S("branch_code"), S("shopping_card_id"), S("order_id") >>)>> >>),
        D(<<
          <<"rule", S("check_null")>>,
          <<"column", L(<< S("branch_code"), S("shopping_card_id"), S("order_id") >>)>> >>) >>)>> >>)>> >>)

\* data_pipeline_register.py lines 351-414
PosBranchTableConfigSecond ==
  D(<<
    <<"metadata", D(<<
      <<"tier1", D(<<
        <<"load_type", S("full_dump")>>,
        <<"schema", S("t1_pos")>>,
        <<"table", S("df_sohdr")>>,
        <<"partition_columns", L(<< S("source"), S("dp_data_dt") >>)>>,
        <<"technical_columns", L(<<
          D(<< <<"name", S("source")>>, <<"data_type", S("string")>> >>),
          D(<< <<"name", S("dp_load_ts")>>, <<"data_type", S("timestamp")>> >>),
          D(<< <<"name", S("dp_data_dt")>>, <<"data_type", S("date")>> >>) >>)>> >>)>>,
      <<"tier2", D(<<
        <<"load_type", S("scd1")>>,
        <<"schema", S("t2_pos")>>,
        <<"table", S("txn_sales_order_header")>>,
        <<"primary_keys", L(<< S("branch_code"), S("shopping_card_id"), S("order_id") >>)>>,
        <<"partition_columns", L(<< S("source") >>)>>,
        <<"technical_columns", L(<<
          D(<< <<"name", S("source")>>, <<"data_type", S("string")>> >>),
          D(<< <<"name", S("dp_load_ts")>>, <<"data_type", S("timestamp")>> >>),
          D(<< <<"name", S("dp_data_dt")>>, <<"data_type", S("date")>> >>) >>)>> >>)>> >>)>>,
    <<"columns", L(<<
      D(<<
        <<"tier_1", S("branch_no")>>,
        <<"tier_2", S("branch_code")>>,
        <<"data_type", S("string")>> >>),
      D(<<
        <<"tier_1", S("shopping_card")>>,
        <<"tier_2", S("shopping_card_id")>>,
        <<"data_type", S("string")>> >>),
      D(<<
        <<"tier_1", S("order_no")>>,
        <<"tier_2", S("order_id")>>,
        <<"data_type", S("string")>> >>),
      D(<<
        <<"tier_1", S("order_date")>>,
        <<"tier_2", S("order_timestamp")>>,
        <<"data_type", S("timestamp")>> >>),
      D(<<
        <<"tier_1", S("tour_code")>>,
        <<"tier_2", S("tour_code")>>,
        <<"data_type", S("string")>> >>),
      D(<<
        <<"tier_1", S("cust_type_code")>>,
        <<"tier_2", S("customer_type_code")>>,
        <<"data_type", S("string")>> >>),
      D(<<
        <<"tier_1", S("airline_code")>>,
        <<"tier_2", S("airline_code")>>,
        <<"data_type", S("string")>> >>),
      D(<<
        <<"tier_1", S("flight_code")>>,
        <<"tier_2", S("flight_code")>>,
        <<"data_type", S("string")>> >>),
      D(<<
        <<"tier_1", S("flight_date")>>,
        <<"tier_2", S("flight_date")>>,
        <<"data_type", S("date")>> >>),
      D(<<
        <<"tier_1", S("flight_time")>>,
        <<"tier_2", S("flight_time")>>,
        <<"data_type", S("string")>> >>),
      D(<<
        <<"tier_1", S("country_code")>>,
        <<"tier_2", S("country_code")>>,
        <<"data_type", S("string")>> >>),
      D(<<
        <<"tier_1", S("order_status")>>,
        <<"tier_2", S("order_status_type")>>,
        <<"data_type", S("string")>> >>),
      D(<< <<"tier_1", S("posid")>>, <<"tier_2", S("pos_id")>>, <<"data_type", S("string")>> >>),
      D(<<
        <<"tier_1", S("cashier_mac")>>,
        <<"tier_2", S("cashier_machine_id")>>,
        <<"data_type", S("string")>> >>),
      D(<<
        <<"tier_1", S("cashier_code")>>,
        <<"tier_2", S("cashier_code")>>,
        <<"data_type", S("string")>> >>),
      D(<<
        <<"tier_1", S("update_date_sale")>>,
        <<"tier_2", S("sale_update_timestamp")>>,
        <<"data_type", S("timestamp")>> >>),
      D(<<
        <<"tier_1", S("add_datetime")>>,
        <<"tier_2", S("add_timestamp")>>,
        <<"data_type", S("timestamp")>> >>),
      D(<<
        <<"tier_1", S("update_datetime")>>,
        <<"tier_2", S("update_timestamp")>>,
        <<"data_type", S("timestamp")>> >>),
      D(<<
        <<"tier_1", S("user_add")>>,
        <<"tier_2", S("user_add_id")>>,
        <<"data_type", S("string")>> >>),
      D(<<
        <<"tier_1", S("user_update")>>,
        <<"tier_2", S("user_update_id")>>,
        <<"data_type", S("string")>> >>),
      D(<<
        <<"tier_1", S("time_stamp")>>,
        <<"tier_2", S("timestamp_code")>>,
        <<"data_type", S("string")>> >>),
      D(<<
        <<"tier_1", S("lock_address")>>,
        <<"tier_2", S("lock_address_code")>>,
        <<"data_type", S("string")>> >>),
      D(<<
        <<"tier_1", S("cancel_to_order")>>,
        <<"tier_2", S("cancel_to_order_id")>>,
        <<"data_type", S("int")>> >>),
      D(<<
        <<"tier_1", S("hotel_code")>>,
        <<"tier_2", S("hotel_code")>>,
        <<"data_type", S("string")>> >>),
      D(<<
        <<"tier_1", S("hotel_source")>>,
        <<"tier_2", S("hotel_source_code")>>,
        <<"data_type", S("string")>> >>),
      D(<<
        <<"tier_1", S("shop_ref")>>,
        <<"tier_2", S("reference_shopping_card_id")>>,
        <<"data_type", S("string")>> >>),
      D(<<
        <<"tier_1", S("machine_tax")>>,
        <<"tier_2", S("machine_tax_id")>>,
        <<"data_type", S("string")>> >>),
      D(<<
        <<"tier_1", S("ref_doc")>>,
        <<"tier_2", S("reference_document_id")>>,
        <<"data_type", S("string")>> >>),
      D(<<
        <<"tier_1", S("cardtypecode")>>,
        <<"tier_2", S("card_type_code")>>,
        <<"data_type", S("string")>> >>),
      D(<<
        <<"tier_1", S("embossid")>>,
        <<"tier_2", S("emboss_id")>>,
        <<"data_type", S("string")>> >>),
      D(<<
        <<"tier_1", S("cardtypeid")>>,
        <<"tier_2", S("card_type_id")>>,
        <<"data_type", S("string")>> >>),
      D(<<
        <<"tier_1", S("lvheaderkey")>>,
        <<"tier_2", S("lvheader_key")>>,
        <<"data_type", S("decimal(13, 2)")>> >>),
      D(<<
        <<"tier_1", S("alipaysession")>>,
        <<"tier_2", S("alipay_session_number")>>,
        <<"data_type", S("string")>> >>),
      D(<<
        <<"tier_1", S("paid_guid")>>,
        <<"tier_2", S("paid_guid")>>,
        <<"data_type", S("string")>> >>),
      D(<< <<"tier_1", S("site")>>, <<"tier_2", S("site_name")>>, <<"data_type", S("string")>> >>) >>)>> >>)


----------------------------------------------------------------------------
\* a message shown to the user: the fixed text and the values formatted into it
Msg(text, args) == [text |-> text, args |-> args]

(* YAML text.  A text is the node tree its lines spell out:                *)
(*   [kind |-> "scalar", val |-> [style, text]]  style plain or single     *)
(*   [kind |-> "seq",    val |-> <<node, ...>>]                            *)
(*   [kind |-> "map",    val |-> << <<key, node>>, ... >>]                 *)
(*   [kind |-> "empty"]     a file with no document                        *)
(*   [kind |-> "garbage"]   bytes the scanner rejects                      *)

Scalar(style, text) == [kind |-> "scalar", val |-> [style |-> style, text |-> text]]
SeqNode(items) == [kind |-> "seq", val |-> items]
MapNode(pairs) == [kind |-> "map", val |-> pairs]
EmptyText == [kind |-> "empty", val |-> ""]
GarbageText == [kind |-> "garbage", val |-> ""]

\* yaml.resolver: the implicit tags of a plain scalar (bool, null and int
\* patterns; the float and timestamp patterns match no string of the model)
BoolTrueTexts == {"true", "True", "TRUE", "yes", "Yes", "YES", "on", "On", "ON"}
BoolFalseTexts == {"false", "False", "FALSE", "no", "No", "NO", "off", "Off", "OFF"}
NullTexts == {"", "~", "null", "Null", "NULL"}
IntTexts == {[text |-> "0", int |-> 0], [text |-> "1", int |-> 1]}
IsIntText(text) == \E e \in IntTexts : e.text = text
IntOfText(text) == (CHOOSE e \in IntTexts : e.text = text).int
TextOfInt(n) == (CHOOSE e \in IntTexts : e.int = n).text

ResolvePlain(text) ==
  CASE text \in BoolTrueTexts -> B(TRUE)
    [] text \in BoolFalseTexts -> B(FALSE)
    [] text \in NullTexts -> None
    [] IsIntText(text) -> I(IntOfText(text))
    [] OTHER -> S(text)

\* yaml.emitter.analyze_scalar: the strings of the model that cannot be written
\* plain in a block mapping because they start with an indicator character
IndicatorTexts == {"|", "\"", "*.ctl", "*.csv", ","}

\* an emitter that never quotes a str
StrStyleAlwaysPlain(text) == "plain"

\* yaml.emitter.choose_scalar_style for a str: plain only if the plain text
\* reads back as a str (a text with a leading or trailing blank does not)
StrStyle(text) ==
  IF text \in IndicatorTexts \/ text = " " \/ ResolvePlain(text).t # "str"
    THEN "single" ELSE "plain"

\* yaml.dump(x, default_flow_style=False, sort_keys=False)
RECURSIVE yaml_dump(_)
yaml_dump(x) ==
  CASE x.t = "str" -> Scalar(StrStyle(x.v), x.v)
    [] x.t = "bool" -> Scalar("plain", IF x.v THEN "true" ELSE "false")
    [] x.t = "int" -> Scalar("plain", TextOfInt(x.v))
    [] x.t = "none" -> Scalar("plain", "null")
    [] x.t = "list" -> SeqNode([i \in 1..Len(x.v) |-> yaml_dump(x.v[i])])
    [] OTHER -> MapNode([i \in 1..Len(x.v) |-> <<x.v[i][1], yaml_dump(x.v[i][2])>>])

\* whether yaml.safe_load raises on the text
RECURSIVE Unparseable(_)
Unparseable(node) ==
  CASE node.kind = "garbage" -> TRUE
    [] node.kind = "empty" -> FALSE
    [] node.kind = "scalar" -> node.val.style = "plain" /\ node.val.text \in IndicatorTexts
    [] node.kind = "seq" -> \E i \in 1..Len(node.val) : Unparseable(node.val[i])
    [] OTHER -> \E i \in 1..Len(node.val) : Unparseable(node.val[i][2])

\* yaml.safe_load of a text that parses
RECURSIVE yaml_safe_load(_)
yaml_safe_load(node) ==
  CASE node.kind = "empty" -> None
    [] node.kind = "scalar" ->
         IF node.val.style = "plain" THEN ResolvePlain(node.val.text) ELSE S(node.val.text)
    [] node.kind = "seq" -> L([i \in 1..Len(node.val) |-> yaml_safe_load(node.val[i])])
    [] OTHER -> D([i \in 1..Len(node.val) |->
                     <<node.val[i][1], yaml_safe_load(node.val[i][2])>>])

\* a loader whose except branch returns None without st.error
load_existing_config_silent(text) ==
  IF Unparseable(text)
    THEN [config |-> None, error |-> <<>>]
    ELSE [config |-> yaml_safe_load(text), error |-> <<>>]

\* load_existing_config: the parsed document, or None after st.error
load_existing_config(text) ==
  IF Unparseable(text)
    THEN [config |-> None, error |-> <<Msg("Error loading configuration file", <<>>)>>]
    ELSE [config |-> yaml_safe_load(text), error |-> <<>>]

----------------------------------------------------------------------------
(* Sidebar: templates and the uploaded configuration *)

\* what a step shows: st.error, st.warning, st.success, st.info, st.code,
\* what it hands out or writes, and the mappings behind "Add these mappings"
\* when that button is on the page
NoText == [kind |-> "none", val |-> ""]
NoSave == [path |-> "", file |-> "none"]
NoOut == [error |-> <<>>, warning |-> <<>>, success |-> <<>>, info |-> <<>>,
          code |-> NoText, download |-> NoText, save |-> NoSave, offered |-> <<>>]

\* a template kept in one shared object: once the session holds the
\* document, a later load hands the same, possibly edited, object back
load_sales_transaction_template_shared(ss) ==
  IF PyEq(Get(ss.source_config, "source_system", None), S("pos"))
    THEN ss
    ELSE [ss EXCEPT !.source_config = SalesTransactionSourceConfig,
                    !.validator_config = SalesTransactionValidatorConfig,
                    !.table_config = SalesTransactionTableConfig]

load_sales_transaction_template(ss) ==
  [ss EXCEPT !.source_config = SalesTransactionSourceConfig,
             !.validator_config = SalesTransactionValidatorConfig,
             !.table_config = SalesTransactionTableConfig]

\* the five assignments of the function, in order
load_pos_branch_template(ss) ==
  LET s1 == [ss EXCEPT !.source_config = PosBranchSourceConfig]
      s2 == [s1 EXCEPT !.validator_config = PosBranchValidatorConfigFirst]
      s3 == [s2 EXCEPT !.table_config = PosBranchTableConfigFirst]
      s4 == [s3 EXCEPT !.validator_config = PosBranchValidatorConfigSecond]
      s5 == [s4 EXCEPT !.table_config = PosBranchTableConfigSecond]
  IN s5

\* k in x, for the containers an uploaded document can be
In(x, k) ==
  CASE x.t = "dict" -> Has(x, k)
    [] x.t = "list" -> \E i \in 1..Len(x.v) : PyEq(x.v[i], S(k))
    [] OTHER -> FALSE   \* a str: no string of the model contains a section name

load_config_into_session(ss, config) ==
  LET s1 == IF In(config, "source_config")
              THEN [ss EXCEPT !.source_config = Item(config, "source_config")]
              ELSE ss
      s2 == IF In(config, "validator_config")
              THEN [s1 EXCEPT !.validator_config = Item(config, "validator_config")]
              ELSE s1
      s3 == IF In(config, "table_config")
              THEN LET tc == Item(config, "table_config")
                       s21 == [s2 EXCEPT !.table_config = tc]
                   IN IF In(tc, "columns")
                        THEN [s21 EXCEPT !.column_mappings = Item(tc, "columns")]
                        ELSE s21
              ELSE s2
  IN s3

NoFile == [kind |-> "nofile", val |-> ""]
TemplateOptions ==
  <<"None", "POS Branch Template", "Sales Transaction Template", "Customer Master Template">>
Sections ==
  <<"Source Configuration", "Validator Configuration", "Table Configuration",
    "Column Mappings", "Generate YAML">>

\* lines 105-115: the Load Template button
LoadTemplate(ss, load_template, template_option) ==
  IF ~load_template THEN [ss |-> ss, success |-> <<>>, info |-> <<>>]
  ELSE IF template_option = "POS Branch Template"
    THEN [ss |-> load_pos_branch_template(ss),
          success |-> <<Msg("POS Branch template loaded!", <<>>)>>, info |-> <<>>]
  ELSE IF template_option = "Sales Transaction Template"
    THEN [ss |-> load_sales_transaction_template(ss),
          success |-> <<Msg("Sales Transaction template loaded!", <<>>)>>, info |-> <<>>]
  ELSE IF template_option # "None"
    THEN [ss |-> ss, success |-> <<>>, info |-> <<Msg("not implemented yet", <<template_option>>)>>]
  ELSE [ss |-> ss, success |-> <<>>, info |-> <<>>]

\* lines 121-134: the uploaded file, after the template step t; r is what
\* load_existing_config returned
LoadUploaded(t, file, r) ==
  IF file = NoFile
    THEN [ss |-> t.ss,
          out |-> [NoOut EXCEPT !.success = t.success, !.info = t.info]]
  ELSE IF Truthy(r.config)
    THEN [ss |-> load_config_into_session(t.ss, r.config),
          out |-> [NoOut EXCEPT !.error = r.error, !.info = t.info,
                     !.success = t.success
                                   \o <<Msg("Configuration loaded successfully!", <<>>)>>]]
  ELSE [ss |-> t.ss,
        out |-> [NoOut EXCEPT !.error = r.error, !.success = t.success, !.info = t.info]]

\* a sidebar that loads an uploaded file once, in the run it arrives in
render_sidebar_one_shot(ss, load_template, template_option, file) ==
  LoadUploaded(LoadTemplate(ss, load_template, template_option),
               IF file = uploaded_file THEN NoFile ELSE file,
               IF file = NoFile \/ file = uploaded_file
                 THEN [config |-> None, error |-> <<>>]
                 ELSE load_existing_config(file))

\* render_sidebar with the widgets' values: load_template is the button,
\* template_option the selectbox, file the uploader's content
render_sidebar(ss, load_template, template_option, file) ==
  LoadUploaded(LoadTemplate(ss, load_template, template_option), file,
               IF file = NoFile THEN [config |-> None, error |-> <<>>]
               ELSE load_existing_config(file))

----------------------------------------------------------------------------
(* Widgets.  A widget the user leaves alone returns the value it was given; *)
(* Keep in the step's input stands for "left alone".                       *)

Keep == [t |-> "keep", v |-> ""]
\* st.data_editor(cur), and a text_input over a text
Widget(x, cur) == IF x.t = "keep" THEN cur ELSE x
\* str(x) of a scalar
Str(x) ==
  CASE x.t = "int" -> S(TextOfInt(x.v))
    [] x.t = "bool" -> S(IF x.v THEN "True" ELSE "False")
    [] OTHER -> x
\* st.text_input(value=cur): the widget holds str(cur)
TextInput(x, cur) == IF x.t = "keep" THEN Str(cur) ELSE x
\* st.checkbox(value=cur): the widget holds bool(cur)
CheckBox(x, cur) == IF x.t = "keep" THEN B(Truthy(cur)) ELSE x
\* st.selectbox(options=options, index=index), index counted from 0
SelectBox(x, options, index) == IF x.t = "keep" THEN S(options[index + 1]) ELSE x

(* The text of a comma-separated field is its sequence of tokens: "," and  *)
(* " " are tokens of their own, every other token is a run of characters   *)
(* holding neither.                                                        *)
Text(tokens) == [t |-> "text", v |-> tokens]

\* ', '.join(strs)
RECURSIVE JoinCommaSpace(_)
JoinCommaSpace(strs) ==
  IF strs = <<>> THEN <<>>
  ELSE LET h == IF Head(strs) = "" THEN <<>> ELSE <<Head(strs)>>
       IN IF Len(strs) = 1 THEN h ELSE h \o <<",", " ">> \o JoinCommaSpace(Tail(strs))

\* tokens.split(',')
RECURSIVE SplitComma(_)
SplitComma(tokens) ==
  IF \A i \in 1..Len(tokens) : tokens[i] # "," THEN <<tokens>>
  ELSE LET i == CHOOSE j \in 1..Len(tokens) :
                  tokens[j] = "," /\ \A k \in 1..(j - 1) : tokens[k] # ","
       IN <<SubSeq(tokens, 1, i - 1)>> \o SplitComma(SubSeq(tokens, i + 1, Len(tokens)))

\* piece.strip()
RECURSIVE StripTokens(_)
StripTokens(piece) ==
  IF piece = <<>> THEN <<>>
  ELSE IF Head(piece) = " " THEN StripTokens(Tail(piece))
  ELSE IF piece[Len(piece)] = " " THEN StripTokens(SubSeq(piece, 1, Len(piece) - 1))
  ELSE piece

\* the str a token sequence spells
RECURSIVE Concat(_)
Concat(tokens) == IF tokens = <<>> THEN "" ELSE Head(tokens) \o Concat(Tail(tokens))

\* [col.strip() for col in text.split(',')] if text else []
SplitStripList(text) ==
  IF Len(text.v) = 0 THEN L(<<>>)
  ELSE LET pieces == SplitComma(text.v)
       IN L([i \in 1..Len(pieces) |-> S(Concat(StripTokens(pieces[i])))])

\* the comma-separated text_input over meta[key]
CommaField(meta, key, x) ==
  LET cur == Get(meta, key, L(<<>>))
      str == Text(JoinCommaSpace([i \in 1..Len(cur.v) |-> cur.v[i].v]))
  IN SplitStripList(Widget(x, str))

(* A data_editor over name/data_type rows: the frame built from the stored *)
(* columns, then the rows kept on the way back.                            *)
Rows(rows) == [t |-> "rows", v |-> rows]

ColumnFrame(cols) ==
  Rows([i \in 1..Len(cols.v) |->
          [name |-> Get(cols.v[i], "name", S("")),
           data_type |-> Get(cols.v[i], "data_type", S(""))]])

ColumnsOfFrame(frame) ==
  LET kept == SelectSeq(frame.v, LAMBDA row : Truthy(row.name) /\ Truthy(row.data_type))
  IN L([i \in 1..Len(kept) |->
          D(<< <<"name", kept[i].name>>, <<"data_type", kept[i].data_type>> >>)])

----------------------------------------------------------------------------
(* Source Configuration *)

SourceKeep ==
  [source_system |-> Keep, catalog |-> Keep, delay_day |-> Keep, active_flag |-> Keep,
   landing_bucket |-> Keep, persisted_bucket |-> Keep, data_timezone |-> Keep,
   control_file_landing_location |-> Keep, data_file_landing_location |-> Keep,
   control_file_regex |-> Keep, data_file_regex |-> Keep,
   control_header |-> Keep, control_delimiter |-> Keep,
   data_header |-> Keep, data_delimiter |-> Keep, data_quote |-> Keep,
   data_escape |-> Keep, data_charset |-> Keep]

\* if key not in d: d[key] = default
Ensure(d, key, default) == IF Has(d, key) THEN d ELSE Set(d, key, default)

\* d[key] = st.text_input(value=d.get(key, default))
SetTextInput(d, key, x, default) == Set(d, key, TextInput(x, Get(d, key, S(default))))

\* d[key] = st.selectbox(options=['y', 'n'], index=0 if d.get(key, 'y') == 'y' else 1)
SetYesNo(d, key, x) ==
  Set(d, key, SelectBox(x, <<"y", "n">>, IF PyEq(Get(d, key, S("y")), S("y")) THEN 0 ELSE 1))

\* d[key] = st.checkbox(value=d.get(key, default))
SetCheckBox(d, key, x, default) == Set(d, key, CheckBox(x, Get(d, key, B(default))))

\* lines 520-537
ControlFileFormat(format, w) ==
  SetTextInput(SetCheckBox(format, "header", w.control_header, FALSE),
               "delimiter", w.control_delimiter, "|")

\* lines 542-581
DataFileFormat(format, w) ==
  LET g1 == SetCheckBox(format, "header", w.data_header, TRUE)
      g2 == SetTextInput(g1, "delimiter", w.data_delimiter, ",")
      g3 == SetTextInput(g2, "quote", w.data_quote, "\"")
      g4 == SetTextInput(g3, "escape", w.data_escape, "\"")
      g5 == SetTextInput(g4, "charset", w.data_charset, "utf-8")
  IN g5

SetControlFileFormat(c, w) ==
  Set(c, "control_file_format", ControlFileFormat(Item(c, "control_file_format"), w))

SetDataFileFormat(c, w) ==
  Set(c, "data_file_format", DataFileFormat(Item(c, "data_file_format"), w))

render_source_config(ss, w) ==
  LET c0 == ss.source_config
      c1 == SetTextInput(c0, "source_system", w.source_system, "")
      c2 == SetTextInput(c1, "catalog", w.catalog, "${catalog}")
      c3 == SetTextInput(c2, "delay_day", w.delay_day, "1")
      c4 == SetYesNo(c3, "active_flag", w.active_flag)
      c5 == SetTextInput(c4, "landing_bucket", w.landing_bucket, "${tier0_bucket}")
      c6 == SetTextInput(c5, "persisted_bucket", w.persisted_bucket, "${tier1_bucket}")
      c7 == SetTextInput(c6, "data_timezone", w.data_timezone, "UTC")
      c8 == SetTextInput(c7, "control_file_landing_location",
              w.control_file_landing_location, "/ctl/${source_system}/${table}/${data_date}/")
      c9 == SetTextInput(c8, "data_file_landing_location",
              w.data_file_landing_location, "/data/${source_system}/${table}/${data_date}/")
      c10 == SetTextInput(c9, "control_file_regex", w.control_file_regex, "*.ctl")
      c11 == SetTextInput(c10, "data_file_regex", w.data_file_regex, "*.csv")
      c12 == Ensure(c11, "control_file_format",
               D(<< <<"header", B(FALSE)>>, <<"delimiter", S("|")>> >>))
      c13 == SetControlFileFormat(c12, w)
      c14 == Ensure(c13, "data_file_format",
               D(<< <<"header", B(TRUE)>>, <<"delimiter", S(",")>>, <<"quote", S("\"")>>,
                    <<"escape", S("\"")>>, <<"charset", S("utf-8")>> >>))
      c15 == SetDataFileFormat(c14, w)
  IN [ss EXCEPT !.source_config = c15]

----------------------------------------------------------------------------
(* Validator Configuration *)

ValidatorKeep == [control_file_flag |-> Keep, tier1_rules |-> Keep, tier2_rules |-> Keep]

\* lines 611-616: the editor's frame, one row per stored rule
RuleFrame(rules) ==
  Rows([i \in 1..Len(rules.v) |->
          LET columns == Get(rules.v[i], "column", L(<<>>))
          IN [rule |-> Get(rules.v[i], "rule", S("")),
              columns |-> IF columns.t = "list"
                            THEN Text(JoinCommaSpace([j \in 1..Len(columns.v) |-> columns.v[j].v]))
                            ELSE Text(IF columns.v = "" THEN <<>> ELSE <<columns.v>>)]])

\* lines 628-635: the rules kept from the edited frame
RulesOfFrame(frame) ==
  LET kept == SelectSeq(frame.v, LAMBDA row : Truthy(row.rule) /\ Truthy(row.columns))
  IN L([i \in 1..Len(kept) |->
          D(<< <<"rule", kept[i].rule>>, <<"column", SplitStripList(kept[i].columns)>> >>)])

\* config['data_quality_rules'] = the rules kept from the data_editor over them
SetRulesEditor(config, x) ==
  Set(config, "data_quality_rules",
    RulesOfFrame(Widget(x, RuleFrame(Get(config, "data_quality_rules", L(<<>>))))))

\* lines 599-635
ValidatorTier1(tier1_config, w) ==
  SetRulesEditor(SetYesNo(tier1_config, "control_file_flag", w.control_file_flag),
                 w.tier1_rules)

SetValidatorTier1(v, w) == Set(v, "tier1", ValidatorTier1(Item(v, "tier1"), w))
SetValidatorTier2(v, w) == Set(v, "tier2", SetRulesEditor(Item(v, "tier2"), w.tier2_rules))

render_validator_config(ss, w) ==
  LET v1 == Ensure(ss.validator_config, "tier1",
              D(<< <<"control_file_flag", S("y")>>, <<"data_quality_rules", L(<<>>)>> >>))
      v2 == SetValidatorTier1(v1, w)
      v3 == Ensure(v2, "tier2", D(<< <<"data_quality_rules", L(<<>>)>> >>))
      v4 == SetValidatorTier2(v3, w)
  IN [ss EXCEPT !.validator_config = v4]

----------------------------------------------------------------------------
(* Table Configuration *)

HistoricalDefault ==
  L(<< D(<< <<"name", S("is_current")>>, <<"data_type", S("string")>> >>),
       D(<< <<"name", S("effective_start_date")>>, <<"data_type", S("date")>> >>),
       D(<< <<"name", S("effective_end_date")>>, <<"data_type", S("date")>> >>) >>)

\* an update_load_type without its first branch: the switch to scd2 adds nothing
update_load_type_no_default(tier2_meta) ==
  IF /\ ~PyEq(Item(tier2_meta, "load_type"), S("scd2"))
     /\ Has(tier2_meta, "historical_load_columns")
    THEN Del(tier2_meta, "historical_load_columns")
    ELSE tier2_meta

\* render_table_config.update_load_type, on the tier2 metadata
update_load_type(tier2_meta) ==
  IF /\ PyEq(Item(tier2_meta, "load_type"), S("scd2"))
     /\ (\/ ~Has(tier2_meta, "historical_load_columns")
         \/ ~Truthy(Item(tier2_meta, "historical_load_columns")))
    THEN Set(tier2_meta, "historical_load_columns", HistoricalDefault)
  ELSE IF /\ ~PyEq(Item(tier2_meta, "load_type"), S("scd2"))
          /\ Has(tier2_meta, "historical_load_columns")
    THEN Del(tier2_meta, "historical_load_columns")
  ELSE tier2_meta

\* the widgets of the section, all left alone
TableKeep ==
  [t1_load_type |-> Keep, t1_schema |-> Keep, t1_table |-> Keep,
   t1_partition_columns |-> Keep, t1_technical_columns |-> Keep,
   t2_load_type |-> Keep, t2_schema |-> Keep, t2_table |-> Keep,
   t2_primary_keys |-> Keep, t2_partition_columns |-> Keep,
   t2_technical_columns |-> Keep, historical_load_columns |-> Keep]

\* meta[key] = [c.strip() for c in text_input(', '.join(meta.get(key, []))).split(',')]
SetCommaField(meta, key, x) == Set(meta, key, CommaField(meta, key, x))

\* meta[key] = the rows kept from the data_editor over meta.get(key, [])
SetColumnsEditor(meta, key, x) ==
  Set(meta, key, ColumnsOfFrame(Widget(x, ColumnFrame(Get(meta, key, L(<<>>))))))

\* lines 703-708
SetTier1LoadType(meta, x) ==
  Set(meta, "load_type",
    SelectBox(x, <<"full_dump", "incremental">>,
      IF PyEq(Get(meta, "load_type", S("full_dump")), S("full_dump")) THEN 0 ELSE 1))

\* lines 692-770: the tier 1 block
render_tier1(m0, w) ==
  LET m1 == SetTier1LoadType(m0, w.t1_load_type)
      m2 == SetTextInput(m1, "schema", w.t1_schema, "t1_")
      m3 == SetTextInput(m2, "table", w.t1_table, "")
      m4 == SetCommaField(m3, "partition_columns", w.t1_partition_columns)
      m5 == Ensure(m4, "technical_columns", L(<<>>))
      m6 == SetColumnsEditor(m5, "technical_columns", w.t1_technical_columns)
  IN m6

\* lines 799-809: the selectbox, then update_load_type if the value changed
SetTier2LoadType(meta, x) ==
  LET previous_load_type == Get(meta, "load_type", S(""))
      load_type == SelectBox(x, <<"scd1", "scd2">>,
                     IF PyEq(previous_load_type, S("scd2")) THEN 1 ELSE 0)
  IN IF ~PyEq(previous_load_type, load_type)
       THEN update_load_type(Set(meta, "load_type", load_type))
       ELSE Set(meta, "load_type", load_type)

\* lines 883-925: the historical load columns editor, or the key's removal
HistoricalLoadColumns(meta, x) ==
  IF PyEq(Item(meta, "load_type"), S("scd2"))
    THEN SetColumnsEditor(Ensure(meta, "historical_load_columns", L(<<>>)),
                          "historical_load_columns", x)
  ELSE IF Has(meta, "historical_load_columns")
    THEN Del(meta, "historical_load_columns")
  ELSE meta

\* lines 772-925: the tier 2 block
render_tier2(m0, w) ==
  LET m1 == SetTier2LoadType(m0, w.t2_load_type)
      m2 == SetTextInput(m1, "schema", w.t2_schema, "t2_")
      m3 == SetTextInput(m2, "table", w.t2_table, "")
      m4 == SetCommaField(m3, "primary_keys", w.t2_primary_keys)
      m5 == SetCommaField(m4, "partition_columns", w.t2_partition_columns)
      m6 == Ensure(m5, "technical_columns", L(<<>>))
      m7 == SetColumnsEditor(m6, "technical_columns", w.t2_technical_columns)
      m8 == HistoricalLoadColumns(m7, w.historical_load_columns)
  IN m8

\* metadata[tier] = the rendered block of metadata[tier]
RenderTiers(metadata, w) ==
  LET SetTier1(md) == Set(md, "tier1", render_tier1(Item(md, "tier1"), w))
      SetTier2(md) == Set(md, "tier2", render_tier2(Item(md, "tier2"), w))
  IN SetTier2(Ensure(SetTier1(Ensure(metadata, "tier1", D(<<>>))), "tier2", D(<<>>)))

SetMetadata(table_config, w) ==
  Set(table_config, "metadata", RenderTiers(Item(table_config, "metadata"), w))

render_table_config(ss, w) ==
  [ss EXCEPT !.table_config =
     SetMetadata(Ensure(ss.table_config, "metadata",
                   D(<< <<"tier1", D(<<>>)>>, <<"tier2", D(<<>>)>> >>)), w)]

----------------------------------------------------------------------------
(* Column Mappings *)

MappingFrame(cols) ==
  Rows([i \in 1..Len(cols.v) |->
          [tier_1 |-> Get(cols.v[i], "tier_1", S("")),
           tier_2 |-> Get(cols.v[i], "tier_2", S("")),
           data_type |-> Get(cols.v[i], "data_type", S(""))]])

Mapping(row) ==
  D(<< <<"tier_1", row.tier_1>>, <<"tier_2", row.tier_2>>, <<"data_type", row.data_type>> >>)

\* lines 964-974
MappingsOfFrame(frame) ==
  LET kept == SelectSeq(frame.v, LAMBDA row :
                Truthy(row.tier_1) /\ Truthy(row.tier_2) /\ Truthy(row.data_type))
  IN L([i \in 1..Len(kept) |-> Mapping(kept[i])])

(* An uploaded CSV is its header and its rows of cells, as pd.read_csv     *)
(* frames them; a file read_csv raises on is CsvUnreadable.                *)
NoCsv == [kind |-> "nocsv", val |-> ""]
CsvUnreadable == [kind |-> "unreadable", val |-> ""]
Csv(header, rows) == [kind |-> "csv", val |-> [header |-> header, rows |-> rows]]

SeqToSet(q) == {q[i] : i \in 1..Len(q)}
\* df[col] of row r
Cell(csv, r, col) ==
  csv.val.rows[r][CHOOSE i \in 1..Len(csv.val.header) : csv.val.header[i] = col]
\* the first occurrences of q's items, in order: Series.unique()
RECURSIVE Unique(_)
Unique(q) ==
  IF q = <<>> THEN <<>>
  ELSE LET front == Unique(SubSeq(q, 1, Len(q) - 1))
           last == q[Len(q)]
       IN IF last \in SeqToSet(front) THEN front ELSE Append(front, last)

MappingsKeep == [editor |-> Keep, uploaded_csv |-> NoCsv, add_button |-> FALSE]

\* line 987, reporting only the first missing column
missing_cols_first_only(csv) ==
  LET all == SelectSeq(<<"tier_1", "tier_2", "data_type">>,
                       LAMBDA c : c \notin SeqToSet(csv.val.header))
  IN IF all = <<>> THEN <<>> ELSE <<Head(all)>>

\* lines 986-987: the required columns the header lacks
missing_cols(csv) ==
  SelectSeq(<<"tier_1", "tier_2", "data_type">>,
            LAMBDA c : c \notin SeqToSet(csv.val.header))

\* line 994: the rows whose data_type is not supported
invalid_rows(csv) ==
  {r \in 1..Len(csv.val.rows) :
     Cell(csv, r, "data_type") \notin SeqToSet(SUPPORTED_DATA_TYPES)}

\* line 997: invalid_types['data_type'].unique()
invalid_types(csv) ==
  Unique(SelectSeq([r \in 1..Len(csv.val.rows) |-> Cell(csv, r, "data_type")],
                   LAMBDA x : x \notin SeqToSet(SUPPORTED_DATA_TYPES)))

\* lines 1000-1006: one mapping per row of the file, in file order
bulk_columns(csv) ==
  [r \in 1..Len(csv.val.rows) |->
     Mapping([tier_1 |-> S(Cell(csv, r, "tier_1")),
              tier_2 |-> S(Cell(csv, r, "tier_2")),
              data_type |-> S(Cell(csv, r, "data_type"))])]

\* an extend that skips the mappings the list already holds
ExtendUnique(columns, rows) ==
  L(Unique(columns.v \o rows))

\* line 1010: columns.extend(rows)
Extend(columns, rows) == L(columns.v \o rows)

\* lines 982-1015: the bulk upload, over the session s1 the editor left
BulkUpload(s1, csv, add_button) ==
  IF csv = NoCsv THEN [ss |-> s1, out |-> NoOut, rerun |-> FALSE]
  ELSE IF csv = CsvUnreadable
    THEN [ss |-> s1, rerun |-> FALSE,
          out |-> [NoOut EXCEPT !.error = <<Msg("Error processing CSV", <<>>)>>]]
  ELSE IF missing_cols(csv) # <<>>
    THEN [ss |-> s1, rerun |-> FALSE,
          out |-> [NoOut EXCEPT
                     !.error = <<Msg("Missing required columns", missing_cols(csv))>>]]
  ELSE IF invalid_rows(csv) # {}
    THEN [ss |-> s1, rerun |-> FALSE,
          out |-> [NoOut EXCEPT
                     !.error = <<Msg("Found unsupported data types", invalid_types(csv))>>]]
  ELSE IF add_button
    THEN [ss |-> [s1 EXCEPT !.table_config =
                     Set(s1.table_config, "columns",
                         Extend(Item(s1.table_config, "columns"), bulk_columns(csv)))],
          rerun |-> TRUE,
          out |-> [NoOut EXCEPT
                     !.offered = bulk_columns(csv),
                     !.success = <<Msg("Added column mappings!", <<>>)>>]]
  ELSE [ss |-> s1, rerun |-> FALSE, out |-> [NoOut EXCEPT !.offered = bulk_columns(csv)]]

\* lines 936-974: the editor over table_config['columns']
EditMappings(ss, x) ==
  [ss EXCEPT !.table_config =
     Set(ss.table_config, "columns",
         MappingsOfFrame(Widget(x, MappingFrame(Get(ss.table_config, "columns", L(<<>>))))))]

render_column_mappings(ss, w) ==
  BulkUpload(EditMappings(ss, w.editor), w.uploaded_csv, w.add_button)

----------------------------------------------------------------------------
(* Generate YAML *)

\* the checks without the one on the tier 2 table
error_messages_no_tier2(ss) ==
  LET tc == ss.table_config
      tier1_meta == Get(Get(tc, "metadata", D(<<>>)), "tier1", D(<<>>))
      e1 == IF ~Truthy(Get(ss.source_config, "source_system", None))
              THEN <<"Source system is required">> ELSE <<>>
      e2 == IF ~Truthy(Get(tier1_meta, "table", None))
              THEN <<"Tier 1 table name is required">> ELSE <<>>
      e4 == IF ~Truthy(Get(tc, "columns", None))
              THEN <<"At least one column mapping is required">> ELSE <<>>
  IN e1 \o e2 \o e4

\* the checks as an if/elif chain: only the first failing one reports
error_messages_first_only(ss) ==
  LET tc == ss.table_config
      tier1_meta == Get(Get(tc, "metadata", D(<<>>)), "tier1", D(<<>>))
      tier2_meta == Get(Get(tc, "metadata", D(<<>>)), "tier2", D(<<>>))
  IN IF ~Truthy(Get(ss.source_config, "source_system", None))
       THEN <<"Source system is required">>
     ELSE IF ~Truthy(Get(tier1_meta, "table", None))
       THEN <<"Tier 1 table name is required">>
     ELSE IF ~Truthy(Get(tier2_meta, "table", None))
       THEN <<"Tier 2 table name is required">>
     ELSE IF ~Truthy(Get(tc, "columns", None))
       THEN <<"At least one column mapping is required">>
     ELSE <<>>

\* lines 1027-1050: the required-field checks, in order
error_messages(ss) ==
  LET tc == ss.table_config
      tier1_meta == Get(Get(tc, "metadata", D(<<>>)), "tier1", D(<<>>))
      tier2_meta == Get(Get(tc, "metadata", D(<<>>)), "tier2", D(<<>>))
      e1 == IF ~Truthy(Get(ss.source_config, "source_system", None))
              THEN <<"Source system is required">> ELSE <<>>
      e2 == IF ~Truthy(Get(tier1_meta, "table", None))
              THEN <<"Tier 1 table name is required">> ELSE <<>>
      e3 == IF ~Truthy(Get(tier2_meta, "table", None))
              THEN <<"Tier 2 table name is required">> ELSE <<>>
      e4 == IF ~Truthy(Get(tc, "columns", None))
              THEN <<"At least one column mapping is required">> ELSE <<>>
  IN e1 \o e2 \o e3 \o e4

has_required_fields(ss) == error_messages(ss) = <<>>

combined_config(ss) ==
  D(<< <<"source_config", ss.source_config>>,
       <<"validator_config", ss.validator_config>>,
       <<"table_config", ss.table_config>> >>)

\* the default name composed whenever the source system is set
default_filename_source_only(ss) ==
  LET source_system == Get(ss.source_config, "source_system", S(""))
      tier2_table == Get(Get(Get(ss.table_config, "metadata", D(<<>>)), "tier2", D(<<>>)),
                         "table", S(""))
  IN IF Truthy(source_system)
       THEN S(source_system.v \o "_" \o tier2_table.v \o ".yml")
       ELSE S("pipeline_config.yml")

\* lines 1072-1076
default_filename(ss) ==
  LET source_system == Get(ss.source_config, "source_system", S(""))
      tier2_table == Get(Get(Get(ss.table_config, "metadata", D(<<>>)), "tier2", D(<<>>)),
                         "table", S(""))
  IN IF Truthy(source_system) /\ Truthy(tier2_table)
       THEN S(source_system.v \o "_" \o tier2_table.v \o ".yml")
       ELSE S("pipeline_config.yml")

(* create_yaml_file under the outcome io of the file system calls: "ok",   *)
(* or the call that raises ("makedirs", "open", "dump").  The result is    *)
(* what is at file_path afterwards and whether an exception left.          *)
create_yaml_file(config_data, filename, io) ==
  CASE io = "makedirs" -> [raised |-> TRUE, save |-> NoSave]
    [] io = "open" -> [raised |-> TRUE, save |-> NoSave]
    [] io = "dump" -> [raised |-> TRUE,
                       save |-> [path |-> filename.v, file |-> "partial"]]
    [] OTHER -> [raised |-> FALSE,
                 save |-> [path |-> filename.v, file |-> "complete"]]

GenerateKeep == [filename |-> Keep, download_button |-> FALSE, save_button |-> FALSE, io |-> "ok"]

\* lines 1052-1056
ShowErrors(msgs) ==
  IF msgs # <<>>
    THEN [NoOut EXCEPT !.error = <<Msg("Please fix the following errors:", <<>>)>>,
                       !.warning = [i \in 1..Len(msgs) |-> Msg(msgs[i], <<>>)]]
    ELSE NoOut

\* lines 1066-1092: the preview and the download button
ShowYaml(o, yaml_config, download_button) ==
  [o EXCEPT !.code = yaml_config,
            !.download = IF download_button THEN yaml_config ELSE NoText]

\* lines 1095-1103: the Save to File button
SaveToFile(o, save_button, saved) ==
  IF ~save_button THEN o
  ELSE IF saved.raised
    THEN [o EXCEPT !.error = @ \o <<Msg("Error saving file", <<>>)>>, !.save = saved.save]
  ELSE [o EXCEPT !.success = <<Msg("Configuration saved to", <<saved.save.path>>)>>,
                 !.save = saved.save]

render_generate_yaml(ss, w) ==
  [ss |-> ss,
   out |-> SaveToFile(
             ShowYaml(ShowErrors(error_messages(ss)),
                      yaml_dump(combined_config(ss)), w.download_button),
             w.save_button,
             create_yaml_file(combined_config(ss),
                              Widget(w.filename, default_filename(ss)), w.io))]

----------------------------------------------------------------------------
(* What the user does: the bounded sets the steps draw their inputs from  *)

MaxEditRows == 1
\* the user's interactions in a session: sidebar steps that press Load
\* Template or change the uploader, and section steps that touch a widget
MaxInteractions == 2
\* in the sessions that only use the templates: presses of Load Template,
\* and section steps that touch a widget
MaxTemplateLoads == 2
MaxTemplateEdits == 1

P(text) == Scalar("plain", text)
Q(text) == Scalar("single", text)

\* hand-written files the user may drop into the uploader
FileSourceOnly ==
  MapNode(<< <<"source_config",
               MapNode(<< <<"source_system", P("crm")>>, <<"delay_day", P("1")>> >>)>> >>)

FileScd2NoHistory ==
  MapNode(<< <<"table_config", MapNode(<<
    <<"metadata", MapNode(<<
      <<"tier1", MapNode(<< <<"load_type", P("incremental")>>, <<"table", P("df_cust")>>,
                            <<"partition_columns", SeqNode(<<Q(" ")>>)>> >>)>>,
      <<"tier2", MapNode(<< <<"load_type", P("scd2")>>, <<"table", P("mst_cust")>>,
                            <<"primary_keys", SeqNode(<<P("cust_id")>>)>> >>)>> >>)>>,
    <<"columns", SeqNode(<< MapNode(<< <<"tier_1", P("id")>>, <<"tier_2", P("cust_id")>>,
                                       <<"data_type", P("string")>> >>) >>)>> >>)>> >>)

FileScd1WithHistory ==
  MapNode(<<
    <<"validator_config", MapNode(<<
      <<"tier2", MapNode(<< <<"data_quality_rules", SeqNode(<<
        MapNode(<< <<"rule", P("check_null")>>,
                   <<"column", SeqNode(<<P("cust_id")>>)>> >>) >>)>> >>)>> >>)>>,
    <<"table_config", MapNode(<<
      <<"metadata", MapNode(<<
        <<"tier2", MapNode(<< <<"table", P("mst_cust")>>, <<"load_type", P("scd1")>>,
          <<"historical_load_columns", SeqNode(<<
            MapNode(<< <<"name", P("valid_from")>>, <<"data_type", P("date")>> >>) >>)>>
          >>)>> >>)>>,
      <<"columns", SeqNode(<<
        MapNode(<< <<"tier_1", P("id")>>, <<"tier_2", P("cust_id")>>,
                   <<"data_type", P("string")>> >>),
        MapNode(<< <<"tier_1", P("name")>> >>) >>)>> >>)>> >>)

FileScd2WithHistory ==
  MapNode(<< <<"table_config", MapNode(<<
    <<"metadata", MapNode(<<
      <<"tier2", MapNode(<< <<"load_type", P("scd2")>>,
        <<"historical_load_columns", SeqNode(<<
          MapNode(<< <<"name", P("valid_from")>>, <<"data_type", P("date")>> >>) >>)>>
        >>)>> >>)>> >>)>> >>)

Files ==
  {GarbageText, EmptyText, FileSourceOnly, FileScd2NoHistory, FileScd1WithHistory,
   FileScd2WithHistory}

\* rows the user may leave in a name/data_type editor
EditRowChoices ==
  {[name |-> S("valid_from"), data_type |-> S("date")],
   [name |-> S(""), data_type |-> S("string")]}

RECURSIVE SeqsUpTo(_, _)
SeqsUpTo(set, n) ==
  IF n = 0 THEN {<<>>}
  ELSE LET shorter == SeqsUpTo(set, n - 1)
       IN shorter \cup {Append(q, x) : q \in shorter, x \in set}

ColumnEdits == {Rows(r) : r \in SeqsUpTo(EditRowChoices, MaxEditRows)}

SourceInputs ==
  {SourceKeep,
   [SourceKeep EXCEPT !.source_system = S(""), !.control_header = B(TRUE)]}

ValidatorInputs ==
  {ValidatorKeep,
   [ValidatorKeep EXCEPT !.control_file_flag = S("n"), !.tier1_rules =
      Rows(<< [rule |-> S("check_null"), columns |-> Text(<<"id", ",", "name">>)],
              [rule |-> S("check_duplicate"), columns |-> Text(<<>>)] >>)]}

TableInputs ==
  {[TableKeep EXCEPT !.t2_load_type = lt, !.historical_load_columns = h] :
      lt \in {Keep, S("scd1"), S("scd2")}, h \in {Keep} \cup ColumnEdits}
  \cup
  {[TableKeep EXCEPT !.t1_table = S("df_x"), !.t2_table = S(""),
                     !.t2_primary_keys = Text(<<" ", "id", ",", ",", "name">>)]}

CsvGood == Csv(<<"tier_1", "tier_2", "data_type">>,
               << <<"a", "b", "string">>, <<"a", "b", "string">> >>)
CsvBadType == Csv(<<"tier_1", "tier_2", "data_type">>,
                  << <<"a", "b", "string">>, <<"c", "d", "notatype">> >>)
CsvNoType == Csv(<<"tier_1", "extra">>, << <<"a", "b">> >>)
CsvTwoBadRows == Csv(<<"tier_1", "tier_2", "data_type">>,
                     << <<"a", "b", "notatype">>, <<"c", "d", "string">>,
                        <<"e", "f", "notatype">> >>)

MappingsInputs ==
  {MappingsKeep,
   [MappingsKeep EXCEPT !.editor =
      Rows(<< [tier_1 |-> S("x"), tier_2 |-> S(""), data_type |-> S("string")],
              [tier_1 |-> S("id"), tier_2 |-> S("cust_id"), data_type |-> S("int")] >>)],
   [MappingsKeep EXCEPT !.editor = Rows(<<>>)],
   [MappingsKeep EXCEPT !.uploaded_csv = CsvUnreadable],
   [MappingsKeep EXCEPT !.uploaded_csv = CsvGood],
   [MappingsKeep EXCEPT !.uploaded_csv = CsvGood, !.add_button = TRUE],
   [MappingsKeep EXCEPT !.uploaded_csv = CsvBadType],
   [MappingsKeep EXCEPT !.uploaded_csv = CsvNoType],
   [MappingsKeep EXCEPT !.uploaded_csv = CsvTwoBadRows]}

GenerateInputs ==
  {GenerateKeep,
   [GenerateKeep EXCEPT !.download_button = TRUE],
   [GenerateKeep EXCEPT !.filename = S("out.yml"), !.save_button = TRUE]}
  \cup
  {[GenerateKeep EXCEPT !.save_button = TRUE, !.io = io] :
      io \in {"ok", "makedirs", "open", "dump"}}

----------------------------------------------------------------------------
(* main(): the sidebar step, then the step of the section the radio names *)

NoWidgets == [none |-> TRUE]

Init ==
  /\ session_state = [column_mappings |-> InitColumnMappings,
                      source_config |-> InitSourceConfig,
                      validator_config |-> InitValidatorConfig,
                      table_config |-> InitTableConfig]
  /\ uploaded_file = NoFile
  /\ pc = "sidebar"
  /\ old = session_state
  /\ ui = [section |-> "", load_template |-> FALSE,
           template_option |-> "None", widgets |-> NoWidgets]
  /\ out = NoOut
  /\ used = [loads |-> 0, edits |-> 0]

\* the texts the user can put in the uploader: nothing, a hand-written file,
\* or the YAML the previous step showed
UploadChoices ==
  {NoFile} \cup Files \cup (IF out.code = NoText THEN {} ELSE {out.code})

EndSidebar(load_template, template_option, file, r) ==
  /\ session_state' = r.ss
  /\ out' = r.out
  /\ uploaded_file' = file
  /\ ui' = [section |-> "", load_template |-> load_template,
            template_option |-> template_option, widgets |-> NoWidgets]
  /\ old' = session_state
  /\ pc' = "section"

(* A script run follows one interaction: in the sidebar the user presses   *)
(* Load Template, or changes the uploader, or does neither.  A file left   *)
(* in the uploader is still there on every later run.                      *)
RenderSidebar ==
  /\ pc = "sidebar"
  /\ \E template_option \in SeqToSet(TemplateOptions), file \in UploadChoices :
       LET load_template == template_option # "None"
           cost == IF load_template \/ file # uploaded_file THEN 1 ELSE 0
       IN /\ load_template => file = uploaded_file
          /\ used.loads + used.edits + cost <= MaxInteractions
          /\ used' = [used EXCEPT !.loads = @ + cost]
          /\ EndSidebar(load_template, template_option, file,
               render_sidebar(session_state, load_template, template_option, file))

\* a step with every widget left alone is free; an edit counts as an interaction
Spend(free) ==
  /\ free \/ used.loads + used.edits < MaxInteractions
  /\ used' = [used EXCEPT !.edits = IF free THEN @ ELSE @ + 1]

\* the end of a section step that leaves session ss and shows o
EndSection(section, w, ss, o, free) ==
  /\ Spend(free)
  /\ session_state' = ss
  /\ out' = o
  /\ ui' = [ui EXCEPT !.section = section, !.widgets = w]
  /\ old' = session_state
  /\ pc' = "sidebar"
  /\ UNCHANGED uploaded_file

EndSectionWith(section, w, r, free) == EndSection(section, w, r.ss, r.out, free)

RenderSourceConfig ==
  /\ pc = "section"
  /\ \E w \in SourceInputs :
       EndSection("Source Configuration", w, render_source_config(session_state, w),
                  NoOut, w = SourceKeep)

RenderValidatorConfig ==
  /\ pc = "section"
  /\ \E w \in ValidatorInputs :
       EndSection("Validator Configuration", w, render_validator_config(session_state, w),
                  NoOut, w = ValidatorKeep)

Tier2LoadType(ss) == Item(Item(Item(ss.table_config, "metadata"), "tier2"), "load_type")

\* the historical columns editor is on the page only under scd2
TableInputOk(w, ss) ==
  w.historical_load_columns = Keep \/ PyEq(Tier2LoadType(ss), S("scd2"))

EndTable(w, ss) ==
  /\ TableInputOk(w, ss)
  /\ EndSection("Table Configuration", w, ss, NoOut, w = TableKeep)

RenderTableConfig ==
  /\ pc = "section"
  /\ \E w \in TableInputs : EndTable(w, render_table_config(session_state, w))

RenderColumnMappings ==
  /\ pc = "section"
  /\ \E w \in MappingsInputs :
       EndSectionWith("Column Mappings", w, render_column_mappings(session_state, w),
                      w = MappingsKeep)

RenderGenerateYaml ==
  /\ pc = "section"
  /\ \E w \in GenerateInputs :
       EndSectionWith("Generate YAML", w, render_generate_yaml(session_state, w), TRUE)

Next ==
  \/ RenderSidebar
  \/ RenderSourceConfig
  \/ RenderValidatorConfig
  \/ RenderTableConfig
  \/ RenderColumnMappings
  \/ RenderGenerateYaml

Spec == Init /\ [][Next]_vars

----------------------------------------------------------------------------
(* The sessions that only use the templates: the same steps with the       *)
(* uploader left empty, long enough to load a template, change the         *)
(* document and load the template again.                                   *)

TemplateSidebar ==
  /\ pc = "sidebar"
  /\ \E template_option \in SeqToSet(TemplateOptions) :
       LET load_template == template_option # "None"
           cost == IF load_template THEN 1 ELSE 0
       IN /\ used.loads + cost <= MaxTemplateLoads
          /\ used' = [used EXCEPT !.loads = @ + cost]
          /\ EndSidebar(load_template, template_option, NoFile,
               render_sidebar(session_state, load_template, template_option, NoFile))

TemplateSection(section, w, ss, o, free) ==
  /\ free \/ used.edits < MaxTemplateEdits
  /\ used' = [used EXCEPT !.edits = IF free THEN @ ELSE @ + 1]
  /\ session_state' = ss
  /\ out' = o
  /\ ui' = [ui EXCEPT !.section = section, !.widgets = w]
  /\ old' = session_state
  /\ pc' = "sidebar"
  /\ UNCHANGED uploaded_file

TemplateSourceConfig ==
  /\ pc = "section"
  /\ \E w \in SourceInputs :
       TemplateSection("Source Configuration", w,
                       render_source_config(session_state, w), NoOut, w = SourceKeep)

TemplateValidatorConfig ==
  /\ pc = "section"
  /\ \E w \in ValidatorInputs :
       TemplateSection("Validator Configuration", w,
                       render_validator_config(session_state, w), NoOut,
                       w = ValidatorKeep)

TemplateTable(w, ss) ==
  /\ TableInputOk(w, ss)
  /\ TemplateSection("Table Configuration", w, ss, NoOut, w = TableKeep)

TemplateTableConfig ==
  /\ pc = "section"
  /\ \E w \in TableInputs : TemplateTable(w, render_table_config(session_state, w))

TemplateMappings(w, r) ==
  TemplateSection("Column Mappings", w, r.ss, r.out, w = MappingsKeep)

TemplateColumnMappings ==
  /\ pc = "section"
  /\ \E w \in MappingsInputs :
       TemplateMappings(w, render_column_mappings(session_state, w))

TemplateGenerate(w, r) == TemplateSection("Generate YAML", w, r.ss, r.out, TRUE)

TemplateGenerateYaml ==
  /\ pc = "section"
  /\ \E w \in GenerateInputs : TemplateGenerate(w, render_generate_yaml(session_state, w))

NextTemplates ==
  \/ TemplateSidebar
  \/ TemplateSourceConfig
  \/ TemplateValidatorConfig
  \/ TemplateTableConfig
  \/ TemplateColumnMappings
  \/ TemplateGenerateYaml

SpecTemplates == Init /\ [][NextTemplates]_vars

----------------------------------------------------------------------------
(* Properties.  After a section step pc = "sidebar", ui.section names the  *)
(* section, ui.widgets what the user did in it, old the session before it; *)
(* after a sidebar step pc = "section" and old is the session before it.   *)

Tier1Meta(ss) == Get(Get(ss.table_config, "metadata", D(<<>>)), "tier1", D(<<>>))
Tier2Meta(ss) == Get(Get(ss.table_config, "metadata", D(<<>>)), "tier2", D(<<>>))
\* d[k] is absent or empty
Missing(d, k) == ~Has(d, k) \/ ~Truthy(Item(d, k))
AfterSection(section) == pc = "sidebar" /\ ui.section = section
AfterSidebar == pc = "section"
\* the issues the last step listed
Issues == [i \in 1..Len(out.warning) |-> out.warning[i].text]
LoadedMessage == Msg("Configuration loaded successfully!", <<>>)

\* C1: in every reachable session document tier2.historical_load_columns is
\* present only if tier2.load_type is scd2.
C1_HistoryOnlyUnderScd2 ==
  Has(Tier2Meta(session_state), "historical_load_columns")
    => PyEq(Get(Tier2Meta(session_state), "load_type", None), S("scd2"))

\* the same document reaching the YAML that Generate YAML shows
C1_SerializedHistoryWithoutScd2 ==
  /\ AfterSection("Generate YAML")
  /\ out.code # NoText
  /\ Has(Tier2Meta(session_state), "historical_load_columns")
  /\ ~Has(Tier2Meta(session_state), "load_type")

C2_Case ==
  /\ AfterSection("Table Configuration")
  /\ PyEq(Get(Tier2Meta(old), "load_type", None), S("scd1"))
  /\ Missing(Tier2Meta(old), "historical_load_columns")
  /\ ui.widgets = [TableKeep EXCEPT !.t2_load_type = S("scd2")]

\* C2: a Table Configuration pass that changes tier2 load_type from scd1 to
\* scd2, with no historical_load_columns before and no other edit, leaves
\* historical_load_columns equal to the three default entries, in order.
C2_Scd2SwitchAddsDefault ==
  C2_Case =>
    /\ PyEq(Item(Tier2Meta(session_state), "load_type"), S("scd2"))
    /\ Get(Tier2Meta(session_state), "historical_load_columns", None) = HistoricalDefault

C2_Witness ==
  /\ C2_Case
  /\ Item(Tier2Meta(session_state), "historical_load_columns") = HistoricalDefault

C3_Case ==
  /\ AfterSection("Table Configuration")
  /\ PyEq(Get(Tier2Meta(old), "load_type", None), S("scd2"))
  /\ ui.widgets.t2_load_type = S("scd1")

\* C3: a Table Configuration pass that changes tier2 load_type from scd2 to
\* scd1 removes the historical_load_columns key, whatever it held; the key
\* is absent afterwards, not merely empty.
C3_Scd1SwitchRemovesHistory ==
  C3_Case =>
    /\ PyEq(Item(Tier2Meta(session_state), "load_type"), S("scd1"))
    /\ ~Has(Tier2Meta(session_state), "historical_load_columns")

C3_Witness ==
  /\ C3_Case
  /\ Has(Tier2Meta(old), "historical_load_columns")
  /\ Truthy(Item(Tier2Meta(old), "historical_load_columns"))
  /\ ~Has(Tier2Meta(session_state), "historical_load_columns")

\* C4: a document loaded with tier2 load_type scd2 and no
\* historical_load_columns holds the default triple after a Table
\* Configuration pass with no user edits.
C4_LoadedScd2GetsDefault ==
  (/\ AfterSection("Table Configuration")
   /\ ui.widgets = TableKeep
   /\ PyEq(Get(Tier2Meta(old), "load_type", None), S("scd2"))
   /\ ~Has(Tier2Meta(old), "historical_load_columns"))
  => Get(Tier2Meta(session_state), "historical_load_columns", None) = HistoricalDefault

\* the pass leaves the loaded scd2 document with an empty list
C4_Witness ==
  /\ AfterSection("Table Configuration")
  /\ ui.widgets = TableKeep
  /\ PyEq(Get(Tier2Meta(old), "load_type", None), S("scd2"))
  /\ ~Has(Tier2Meta(old), "historical_load_columns")
  /\ PyEq(Item(Tier2Meta(session_state), "load_type"), S("scd2"))
  /\ Item(Tier2Meta(session_state), "historical_load_columns") = L(<<>>)

SourceSystemEmpty(ss) == Missing(ss.source_config, "source_system")
Tier1TableEmpty(ss) == Missing(Tier1Meta(ss), "table")
Tier2TableEmpty(ss) == Missing(Tier2Meta(ss), "table")
ColumnsEmpty(ss) == Missing(ss.table_config, "columns")

RequiredMessages ==
  <<"Source system is required", "Tier 1 table name is required",
    "Tier 2 table name is required", "At least one column mapping is required">>
RequiredEmpty(ss) ==
  <<SourceSystemEmpty(ss), Tier1TableEmpty(ss), Tier2TableEmpty(ss), ColumnsEmpty(ss)>>
Violated(ss) == {i \in 1..Len(RequiredMessages) : RequiredEmpty(ss)[i]}

C7_IssuesBlockSerialization ==
  (AfterSection("Generate YAML") /\ Issues # <<>>) =>
    /\ out.code = NoText
    /\ out.download = NoText
    /\ out.save.file = "none"

\* the YAML shown and the file written in spite of the issues
C7_Witness ==
  /\ AfterSection("Generate YAML")
  /\ Issues # <<>>
  /\ out.code = yaml_dump(combined_config(session_state))
  /\ out.save.file = "complete"

\* every section pass with no edit leaves the document as it is
FullyDefaulted(ss) ==
  /\ render_source_config(ss, SourceKeep) = ss
  /\ render_validator_config(ss, ValidatorKeep) = ss
  /\ render_table_config(ss, TableKeep) = ss
  /\ render_column_mappings(ss, MappingsKeep).ss = ss

SameDocument(a, b) ==
  /\ a.source_config = b.source_config
  /\ a.validator_config = b.validator_config
  /\ a.table_config = b.table_config

\* sessions the text may be loaded into
PriorSessions ==
  {session_state, load_sales_transaction_template(session_state),
   [column_mappings |-> InitColumnMappings, source_config |-> InitSourceConfig,
    validator_config |-> InitValidatorConfig, table_config |-> InitTableConfig]}

LoadText(prior, text) ==
  LoadUploaded([ss |-> prior, success |-> <<>>, info |-> <<>>], text,
               load_existing_config(text))

HasPlaceholder(ss) == PyEq(Get(ss.source_config, "catalog", None), S("${catalog}"))

\* C8: the YAML that Generate YAML dumps for a fully-defaulted document,
\* loaded through load_existing_config and load_config_into_session into
\* any prior session, gives back the document's source_config,
\* validator_config and table_config, placeholders included; and so does
\* the upload of that text in the next pass.
C8_RoundTrip ==
  /\ (AfterSection("Generate YAML") /\ FullyDefaulted(session_state)) =>
       \A prior \in PriorSessions :
         /\ LoadText(prior, out.code).out.error = <<>>
         /\ SameDocument(LoadText(prior, out.code).ss, session_state)
  /\ (/\ AfterSidebar
      /\ ~ui.load_template
      /\ FullyDefaulted(old)
      /\ uploaded_file = yaml_dump(combined_config(old)))
     => /\ SameDocument(session_state, old)
        /\ out.error = <<>>

C8_Witness ==
  /\ AfterSidebar
  /\ FullyDefaulted(old)
  /\ HasPlaceholder(old)
  /\ uploaded_file = yaml_dump(combined_config(old))
  /\ LoadedMessage \in SeqToSet(out.success)
  /\ SameDocument(session_state, old)
  /\ HasPlaceholder(session_state)

SectionNames == {"source_config", "validator_config", "table_config"}
InitSection(name) ==
  CASE name = "source_config" -> InitSourceConfig
    [] name = "validator_config" -> InitValidatorConfig
    [] OTHER -> InitTableConfig
SectionOf(ss, name) ==
  CASE name = "source_config" -> ss.source_config
    [] name = "validator_config" -> ss.validator_config
    [] OTHER -> ss.table_config

\* C9: after a successful load of a document that lacks one of
\* source_config, validator_config, table_config, that section of the
\* session equals its session-start value, whatever the session held.
C9_MissingSectionIsDefault ==
  (/\ AfterSidebar
   /\ uploaded_file # NoFile
   /\ LoadedMessage \in SeqToSet(out.success))
  => \A name \in SectionNames :
       ~In(load_existing_config(uploaded_file).config, name)
         => SectionOf(session_state, name) = InitSection(name)

\* a section the document lacks keeps what the session held
C9_Witness ==
  /\ AfterSidebar
  /\ uploaded_file # NoFile
  /\ LoadedMessage \in SeqToSet(out.success)
  /\ ~In(load_existing_config(uploaded_file).config, "validator_config")
  /\ session_state.validator_config = old.validator_config
  /\ session_state.validator_config # InitValidatorConfig

\* the sections the document has take the loaded values
C9_PresentSectionIsLoaded ==
  (/\ AfterSidebar
   /\ uploaded_file # NoFile
   /\ LoadedMessage \in SeqToSet(out.success))
  => \A name \in SectionNames :
       In(load_existing_config(uploaded_file).config, name)
         => SectionOf(session_state, name)
              = Item(load_existing_config(uploaded_file).config, name)

C10_Case ==
  /\ AfterSidebar
  /\ uploaded_file # NoFile
  /\ Unparseable(uploaded_file)

\* C10: when the uploaded text cannot be parsed the sidebar shows an error,
\* does not report the configuration loaded, and leaves the four session
\* values as they were before the load attempt.
C10_UnparseableLeavesSession ==
  C10_Case =>
    /\ out.error # <<>>
    /\ LoadedMessage \notin SeqToSet(out.success)
    /\ session_state = LoadTemplate(old, ui.load_template, ui.template_option).ss
    /\ ~ui.load_template => session_state = old

C10_Witness ==
  /\ C10_Case
  /\ ~ui.load_template
  /\ old.source_config # InitSourceConfig
  /\ out.error # <<>>
  /\ out.success = <<>>
  /\ session_state = old

\* table_config['columns'], [] if the key is absent
Columns(ss) == Get(ss.table_config, "columns", L(<<>>))
Complete(col) ==
  /\ ~Missing(col, "tier_1")
  /\ ~Missing(col, "tier_2")
  /\ ~Missing(col, "data_type")
AllComplete(cols) == \A i \in 1..Len(cols.v) : Complete(cols.v[i])
\* a Column Mappings step that read this CSV from the bulk uploader
BulkStep(csv) == AfterSection("Column Mappings") /\ ui.widgets.uploaded_csv = csv

\* C11: a bulk import with rows [a,b,string] and [c,d,notatype] accepts the
\* one mapping (a,b,string) for addition and reports one error for the
\* other row.
C11_SupportedRowsAccepted ==
  BulkStep(CsvBadType) =>
    /\ out.offered = <<Mapping([tier_1 |-> S("a"), tier_2 |-> S("b"),
                                data_type |-> S("string")])>>
    /\ Len(out.error) = 1

\* the whole file is refused: nothing is offered and nothing is added
C11_Witness ==
  /\ BulkStep(CsvBadType)
  /\ out.offered = <<>>
  /\ out.error = <<Msg("Found unsupported data types", <<"notatype">>)>>
  /\ Columns(session_state) = Columns(EditMappings(old, ui.widgets.editor))

\* C12: the error of a bulk import names every row whose data_type is not
\* supported, one entry per invalid row, not only the distinct type names.
C12_EveryInvalidRowNamed ==
  (/\ AfterSection("Column Mappings")
   /\ ui.widgets.uploaded_csv.kind = "csv"
   /\ missing_cols(ui.widgets.uploaded_csv) = <<>>
   /\ invalid_rows(ui.widgets.uploaded_csv) # {})
  => /\ Len(out.error) = 1
     /\ Len(out.error[1].args) = Cardinality(invalid_rows(ui.widgets.uploaded_csv))

\* two invalid rows, one type name in the message
C12_Witness ==
  /\ BulkStep(CsvTwoBadRows)
  /\ Cardinality(invalid_rows(CsvTwoBadRows)) = 2
  /\ out.error = <<Msg("Found unsupported data types", <<"notatype">>)>>

RequiredColumns == {"tier_1", "tier_2", "data_type"}
C13_Case ==
  /\ AfterSection("Column Mappings")
  /\ ui.widgets.uploaded_csv.kind = "csv"
  /\ RequiredColumns \ SeqToSet(ui.widgets.uploaded_csv.val.header) # {}

\* C13: a bulk import whose header lacks a required column shows one error
\* that lists every missing required column, offers no mapping for
\* addition, and leaves table_config.columns as the editor of the pass left
\* it (as it was, when its mappings were complete and the editor untouched).
C13_MissingColumnsAllListed ==
  C13_Case =>
    /\ Len(out.error) = 1
    /\ out.error[1].text = "Missing required columns"
    /\ SeqToSet(out.error[1].args)
         = RequiredColumns \ SeqToSet(ui.widgets.uploaded_csv.val.header)
    /\ out.offered = <<>>
    /\ out.success = <<>>
    /\ session_state = EditMappings(old, ui.widgets.editor)
    /\ (ui.widgets.editor = Keep /\ AllComplete(Columns(old)))
         => Columns(session_state) = Columns(old)

C13_Witness ==
  /\ C13_Case
  /\ out.error = <<Msg("Missing required columns", <<"tier_2", "data_type">>)>>
  /\ out.offered = <<>>
  /\ Columns(old).v # <<>>
  /\ Columns(session_state) = Columns(old)

\* C14: every mapping of the columns list that Generate YAML serializes or
\* saves has non-empty tier_1, tier_2 and data_type.
C14_SerializedMappingsComplete ==
  (AfterSection("Generate YAML") /\ out.code # NoText)
    => AllComplete(Columns(session_state))

\* a loaded incomplete mapping in the YAML shown and in the file saved
C14_Witness ==
  /\ AfterSection("Generate YAML")
  /\ ~AllComplete(Columns(session_state))
  /\ out.code = yaml_dump(combined_config(session_state))
  /\ out.save.file = "complete"

Supported(col) ==
  /\ Has(col, "data_type")
  /\ Item(col, "data_type").t = "str"
  /\ Item(col, "data_type").v \in SeqToSet(SUPPORTED_DATA_TYPES)
AllSupported(cols) == \A i \in 1..Len(cols.v) : Supported(cols.v[i])

\* C15: in every reachable session document the data_type of every column
\* mapping, technical column and historical load column is one of
\* SUPPORTED_DATA_TYPES.
C15_DataTypesSupported ==
  /\ AllSupported(Columns(session_state))
  /\ AllSupported(Get(Tier1Meta(session_state), "technical_columns", L(<<>>)))
  /\ AllSupported(Get(Tier2Meta(session_state), "technical_columns", L(<<>>)))
  /\ AllSupported(Get(Tier2Meta(session_state), "historical_load_columns", L(<<>>)))

\* the Sales Transaction template brings a mapping of type decimal(13, 2)
C15_Witness ==
  /\ AfterSidebar
  /\ ui.load_template
  /\ ui.template_option = "Sales Transaction Template"
  /\ \E i \in 1..Len(Columns(session_state).v) :
       PyEq(Item(Columns(session_state).v[i], "data_type"), S("decimal(13, 2)"))
  /\ "decimal(13, 2)" \notin SeqToSet(SUPPORTED_DATA_TYPES)

SalesTransactionDocument(ss) ==
  /\ ss.source_config = SalesTransactionSourceConfig
  /\ ss.validator_config = SalesTransactionValidatorConfig
  /\ ss.table_config = SalesTransactionTableConfig
\* a Load Template press with no file in the uploader
TemplateStep(option) ==
  /\ AfterSidebar
  /\ ui.load_template
  /\ ui.template_option = option
  /\ uploaded_file = NoFile

\* C16: every load of a template yields the same document, whatever was
\* done to the document of an earlier load: after Load Template the three
\* sections equal the template's literals, whether or not the session held
\* an edited copy of the template, and column_mappings is left alone.
C16_TemplateLoadsIndependent ==
  /\ TemplateStep("Sales Transaction Template")
       => /\ SalesTransactionDocument(session_state)
          /\ session_state.column_mappings = old.column_mappings
  /\ TemplateStep("POS Branch Template")
       => /\ session_state = load_pos_branch_template(
                               [old EXCEPT !.source_config = InitSourceConfig,
                                           !.validator_config = InitValidatorConfig,
                                           !.table_config = InitTableConfig])
          /\ session_state.column_mappings = old.column_mappings

\* the second load, over a session that holds a changed copy of the template
C16_Witness ==
  /\ TemplateStep("Sales Transaction Template")
  /\ used.loads = 2
  /\ used.edits = 1
  /\ old.source_config = SalesTransactionSourceConfig
  /\ old.validator_config = SalesTransactionValidatorConfig
  /\ Tier1Meta(old) = Tier1Meta(session_state)
  /\ Tier2Meta(old) # Tier2Meta(session_state)
  /\ SalesTransactionDocument(session_state)

\* C17: after loading the POS Branch template the session describes the
\* branch tables: tier2.table is mst_branch with load_type scd2 and the
\* historical columns, and validator_config and table_config differ from
\* those of the Sales Transaction template.
C17_PosBranchIsBranchData ==
  TemplateStep("POS Branch Template") =>
    /\ PyEq(Get(Tier2Meta(session_state), "table", None), S("mst_branch"))
    /\ PyEq(Get(Tier2Meta(session_state), "load_type", None), S("scd2"))
    /\ Has(Tier2Meta(session_state), "historical_load_columns")
    /\ session_state.validator_config # SalesTransactionValidatorConfig
    /\ session_state.table_config # SalesTransactionTableConfig

\* the POS Branch load leaves the sales tables in the session
C17_Witness ==
  /\ TemplateStep("POS Branch Template")
  /\ session_state.source_config = PosBranchSourceConfig
  /\ session_state.validator_config = SalesTransactionValidatorConfig
  /\ session_state.table_config = SalesTransactionTableConfig
  /\ PyEq(Get(Tier2Meta(session_state), "table", None), S("txn_sales_order_header"))
  /\ PosBranchTableConfigFirst # session_state.table_config

\* the mapping a CSV row of cells t1, t2, dt becomes
FileRow(t1, t2, dt) ==
  D(<< <<"tier_1", S(t1)>>, <<"tier_2", S(t2)>>, <<"data_type", S(dt)>> >>)
\* a run of the Column Mappings section that added the rows of csv
AddStep(csv) == BulkStep(csv) /\ ui.widgets.add_button
\* the list the editor of that run left, which the append received
ListBeforeAdd == Columns(EditMappings(old, ui.widgets.editor)).v

SavedUnderDefault ==
  /\ AfterSection("Generate YAML")
  /\ ui.widgets.save_button
  /\ ui.widgets.filename = Keep
  /\ ui.widgets.io = "ok"

\* C19: the default file name is "<source_system>_<tier2 table>.yml" when
\* source_config.source_system and tier2.table are both non-empty, and
\* "pipeline_config.yml" when either is empty or absent.
C19_DefaultFilename ==
  SavedUnderDefault =>
    /\ out.save.file = "complete"
    /\ out.save.path =
         IF SourceSystemEmpty(session_state) \/ Tier2TableEmpty(session_state)
           THEN "pipeline_config.yml"
           ELSE Item(session_state.source_config, "source_system").v \o "_"
                  \o Item(Tier2Meta(session_state), "table").v \o ".yml"

\* the Sales Transaction template saved under its composed default name
C19_Witness ==
  /\ SavedUnderDefault
  /\ PyEq(Get(session_state.source_config, "source_system", None), S("pos"))
  /\ PyEq(Get(Tier2Meta(session_state), "table", None), S("txn_sales_order_header"))
  /\ out.save.path = "pos_txn_sales_order_header.yml"
  /\ out.success = <<Msg("Configuration saved to", <<"pos_txn_sales_order_header.yml">>)>>

\* a source system without a tier 2 table saved under the fallback name
C19_FallbackReached ==
  /\ SavedUnderDefault
  /\ ~SourceSystemEmpty(session_state)
  /\ Tier2TableEmpty(session_state)
  /\ out.save.path = "pipeline_config.yml"

\* a run of Generate YAML that pressed Save to File and whose write failed
SaveFailed ==
  /\ AfterSection("Generate YAML")
  /\ ui.widgets.save_button
  /\ ui.widgets.io # "ok"

\* C20: a save that fails at any point (creating the directory, opening
\* the file, or midway through the dump) reports an error and leaves no
\* partial file at the destination; a save that succeeds leaves the whole
\* document there and reports its path.
C20_SaveIsAtomic ==
  /\ SaveFailed =>
       /\ out.save.file = "none"
       /\ \E i \in 1..Len(out.error) : out.error[i] = Msg("Error saving file", <<>>)
       /\ out.success = <<>>
  /\ AfterSection("Generate YAML") /\ ui.widgets.save_button /\ ui.widgets.io = "ok" =>
       /\ out.save.file = "complete"
       /\ out.success = <<Msg("Configuration saved to", <<out.save.path>>)>>

\* the dump raised after the destination was opened for writing: the error
\* is reported and a truncated file is at the destination
C20_Witness ==
  /\ SaveFailed
  /\ ui.widgets.io = "dump"
  /\ out.save.file = "partial"
  /\ out.save.path = "pipeline_config.yml"
  /\ out.error[Len(out.error)] = Msg("Error saving file", <<>>)
  /\ out.success = <<>>

\* Python's == between two stored values: dicts compare by their keys and
\* values whatever the order the keys were inserted in
RECURSIVE SameValue(_, _)
SameValue(a, b) ==
  /\ a.t = b.t
  /\ CASE a.t = "dict" ->
            /\ {a.v[i][1] : i \in 1..Len(a.v)} = {b.v[i][1] : i \in 1..Len(b.v)}
            /\ \A i \in 1..Len(a.v) : SameValue(a.v[i][2], Item(b, a.v[i][1]))
       [] a.t = "list" ->
            /\ Len(a.v) = Len(b.v)
            /\ \A i \in 1..Len(a.v) : SameValue(a.v[i], b.v[i])
       [] OTHER -> a.v = b.v

\* the mapping under key k of a mapping of the written text
\* (an empty mapping where the text has no mapping there)
TextAt(node, k) ==
  IF node.kind = "map" /\ \E i \in 1..Len(node.val) : node.val[i][1] = k
    THEN node.val[CHOOSE i \in 1..Len(node.val) : node.val[i][1] = k][2]
    ELSE MapNode(<<>>)
TextKeys(node) ==
  IF node.kind = "map" THEN [i \in 1..Len(node.val) |-> node.val[i][1]] ELSE <<>>
TierText(tier) == TextAt(TextAt(TextAt(out.code, "table_config"), "metadata"), tier)
\* key a, where written, comes before key b, where written
Precedes(keys, a, b) ==
  \A i, j \in 1..Len(keys) : keys[i] = a /\ keys[j] = b => i < j
DeclaredOrder(keys) ==
  \A a \in {"load_type", "schema", "table"} :
    \A b \in {"partition_columns", "technical_columns"} : Precedes(keys, a, b)

\* the session a first visit of Table Configuration that selects scd2 leaves
SessionStart ==
  [column_mappings |-> InitColumnMappings, source_config |-> InitSourceConfig,
   validator_config |-> InitValidatorConfig, table_config |-> InitTableConfig]
Scd2AtFirstVisit ==
  render_table_config(SessionStart, [TableKeep EXCEPT !.t2_load_type = S("scd2")])

\* C21: the written text lists the keys of the tier 1 and tier 2 metadata in
\* the declaration order of the data model (load_type, schema, table before
\* partition_columns and technical_columns) whatever the order the steps
\* inserted them in, and a session whose document equals the one another
\* sequence of steps reaches writes the same text.
C21_DeclarationOrder ==
  (AfterSection("Generate YAML") /\ out.code # NoText) =>
    /\ DeclaredOrder(TextKeys(TierText("tier1")))
    /\ DeclaredOrder(TextKeys(TierText("tier2")))
    /\ (SameValue(combined_config(session_state), combined_config(Scd2AtFirstVisit))
          => out.code = yaml_dump(combined_config(Scd2AtFirstVisit)))

\* scd2 selected at the second visit of Table Configuration: the document
\* equals the one of a first-visit selection and is written differently,
\* with the keys in the order the steps inserted them
C21_Witness ==
  /\ AfterSection("Generate YAML")
  /\ out.code # NoText
  /\ SameValue(combined_config(session_state), combined_config(Scd2AtFirstVisit))
  /\ out.code # yaml_dump(combined_config(Scd2AtFirstVisit))
  /\ TextKeys(TierText("tier1")) =
       <<"technical_columns", "partition_columns", "load_type", "schema", "table">>
  /\ TextKeys(TierText("tier2")) =
       <<"technical_columns", "partition_columns", "primary_keys",
         "load_type", "schema", "table", "historical_load_columns">>

\* the section passes with every widget left alone
SourcePass(ss) == render_source_config(ss, SourceKeep)
ValidatorPass(ss) == render_validator_config(ss, ValidatorKeep)
TablePass(ss) == render_table_config(ss, TableKeep)
\* a field absent from d0 holds its default in d1
Filled(d0, d1, k, default) == ~Has(d0, k) => PyEq(Item(d1, k), S(default))
SourceFilled(ss, once) ==
  /\ Filled(ss.source_config, once.source_config, "source_system", "")
  /\ Filled(ss.source_config, once.source_config, "catalog", "${catalog}")
  /\ Filled(ss.source_config, once.source_config, "delay_day", "1")
  /\ Filled(ss.source_config, once.source_config, "active_flag", "y")
  /\ Filled(ss.source_config, once.source_config, "data_timezone", "UTC")
  /\ Filled(ss.source_config, once.source_config, "data_file_regex", "*.csv")
ValidatorFilled(ss, once) ==
  ~Has(ss.validator_config, "tier1") =>
    PyEq(Item(Item(once.validator_config, "tier1"), "control_file_flag"), S("y"))
TableFilled(ss, once) ==
  /\ Filled(Tier1Meta(ss), Tier1Meta(once), "load_type", "full_dump")
  /\ Filled(Tier1Meta(ss), Tier1Meta(once), "schema", "t1_")
  /\ Filled(Tier1Meta(ss), Tier1Meta(once), "table", "")
  /\ Filled(Tier2Meta(ss), Tier2Meta(once), "load_type", "scd1")
  /\ Filled(Tier2Meta(ss), Tier2Meta(once), "schema", "t2_")
  /\ Filled(Tier2Meta(ss), Tier2Meta(once), "table", "")

\* C22: a Source, Validator or Table Configuration pass with no edit fills
\* the absent fields of any session document with their defaults, and the
\* same pass run again with no edit leaves the document as the first left it.
C22_DefaultFillingIdempotent ==
  /\ SourceFilled(session_state, SourcePass(session_state))
  /\ SourcePass(SourcePass(session_state)) = SourcePass(session_state)
  /\ ValidatorFilled(session_state, ValidatorPass(session_state))
  /\ ValidatorPass(ValidatorPass(session_state)) = ValidatorPass(session_state)
  /\ TableFilled(session_state, TablePass(session_state))
  /\ TablePass(TablePass(session_state)) = TablePass(session_state)

\* the second no-edit visit of Table Configuration over a loaded document
\* whose tier 1 partition_columns held one blank entry: the first visit left
\* the list with one empty entry, the second leaves it empty
C22_Witness ==
  /\ AfterSection("Table Configuration")
  /\ ui.widgets = TableKeep
  /\ uploaded_file = NoFile
  /\ Get(Tier1Meta(old), "partition_columns", None) = L(<<S("")>>)
  /\ Get(Tier1Meta(session_state), "partition_columns", None) = L(<<>>)
  /\ session_state = TablePass(old)
  /\ session_state # old
  /\ TablePass(session_state) = session_state

\* a file is in the uploader and yaml.safe_load read a document from it
FilePresent ==
  /\ uploaded_file # NoFile
  /\ ~Unparseable(uploaded_file)
  /\ yaml_safe_load(uploaded_file).t = "dict"
  /\ yaml_safe_load(uploaded_file).v # <<>>
\* the session ss holds every section the file contains as the file has it
HoldsFileSections(ss) ==
  \A name \in SectionNames :
    Has(yaml_safe_load(uploaded_file), name)
      => ss[name] = Item(yaml_safe_load(uploaded_file), name)

\* C23: in every run of main() with a file in the uploader, the sections
\* the file contains are applied to the session before the selected section
\* is rendered: the section step starts from the file's values, whatever
\* earlier runs stored.
C23_UploadReappliedEveryPass ==
  /\ (AfterSidebar /\ FilePresent) => HoldsFileSections(session_state)
  /\ (pc = "sidebar" /\ ui.section # "" /\ FilePresent) => HoldsFileSections(old)

\* FileSourceOnly stayed in the uploader over a Source Configuration edit:
\* the run after the edit starts again from the file's source_config
C23_Witness ==
  /\ AfterSidebar
  /\ uploaded_file = FileSourceOnly
  /\ used = [loads |-> 1, edits |-> 1]
  /\ old.source_config =
       render_source_config(LoadText(SessionStart, FileSourceOnly).ss,
         [SourceKeep EXCEPT !.source_system = S(""), !.control_header = B(TRUE)]).source_config
  /\ old.source_config # session_state.source_config
  /\ session_state.source_config = Item(yaml_safe_load(FileSourceOnly), "source_config")
  /\ LoadedMessage \in SeqToSet(out.success)
====
